---- MODULE Spec2Model ----
(***************************************************************************)
(* Session-scoped slot-filling dialogue engine of the admissions chatbot   *)
(* (app/api/chat.py) with its rate limiter, the entity extractors          *)
(* (app/utils/validators.py) and the keyword intent classifier             *)
(* (app/classifier/intent_classifier.py).                                  *)
(*                                                                         *)
(* Text.  A user message is a sequence of tokens: the whitespace-separated *)
(* pieces of the text, lower case, joined by single blanks.  A stored text *)
(* value (a name, a raw category) is such a sequence too.  The empty       *)
(* sequence is the empty text.  What the code decides by looking at the    *)
(* characters of a token (substring tests, regular expressions, upper      *)
(* casing, HTML escaping) is tabulated for the tokens of Vocabulary.       *)
(***************************************************************************)
EXTENDS Integers, Sequences, FiniteSets, TLC

\* ------------------------------------------------------------------------
\* Vocabulary tables (the characters of each token, as far as the code
\* looks at them)
\* ------------------------------------------------------------------------

\* the tokens a sanitised message is made of: those of the messages sent,
\* and the hyphenated spellings of the categories
Vocabulary ==
    {"-5", "0", "1", "12345", "2", "200000", "200001", "21k", "3", "300000", "4",
     "5000", "9876543210", "all", "bc-a", "bc-b", "bc-c", "bc-d", "bc-e", "boys",
     "call", "can", "cse", "cutoff", "don&#x27;t", "ece", "fee", "fraud", "get",
     "girls", "have", "hi", "i", "iit", "it", "k", "know", "mca", "me", "no", "not",
     "oc", "other", "rank", "ravi", "ravi@example.com", "sc-1", "sc-2", "sc-3",
     "sc-i", "sc-ii", "sc-iii", "skip", "sure", "with", "yes"}

\* <<raw token, token after html.escape(quote=True)>>, where they differ
EscapedTokens == {<<"don't", "don&#x27;t">>}

\* <<token, token.upper()>>, where they differ
UpperPairs ==
    {<<"21k", "21K">>, <<"all", "ALL">>, <<"bc-a", "BC-A">>, <<"bc-b", "BC-B">>,
     <<"bc-c", "BC-C">>, <<"bc-d", "BC-D">>, <<"bc-e", "BC-E">>, <<"boys", "BOYS">>,
     <<"call", "CALL">>, <<"can", "CAN">>, <<"cse", "CSE">>, <<"cutoff", "CUTOFF">>,
     <<"don&#x27;t", "DON&#X27;T">>, <<"ece", "ECE">>, <<"fee", "FEE">>, <<"fraud",
     "FRAUD">>, <<"get", "GET">>, <<"girls", "GIRLS">>, <<"have", "HAVE">>, <<"hi",
     "HI">>, <<"i", "I">>, <<"iit", "IIT">>, <<"it", "IT">>, <<"k", "K">>, <<"know",
     "KNOW">>, <<"mca", "MCA">>, <<"me", "ME">>, <<"no", "NO">>, <<"not", "NOT">>,
     <<"oc", "OC">>, <<"other", "OTHER">>, <<"rank", "RANK">>, <<"ravi", "RAVI">>,
     <<"ravi@example.com", "RAVI@EXAMPLE.COM">>, <<"sc-1", "SC-1">>, <<"sc-2",
     "SC-2">>, <<"sc-3", "SC-3">>, <<"sc-i", "SC-I">>, <<"sc-ii", "SC-II">>,
     <<"sc-iii", "SC-III">>, <<"skip", "SKIP">>, <<"sure", "SURE">>, <<"with",
     "WITH">>, <<"yes", "YES">>}

\* <<token, its maximal runs of word characters (regex \w+)>>, for the
\* tokens that are not a single such run
SplitTokens ==
    {<<"-5", <<"5">>>>, <<"bc-a", <<"bc", "a">>>>, <<"bc-b", <<"bc", "b">>>>,
     <<"bc-c", <<"bc", "c">>>>, <<"bc-d", <<"bc", "d">>>>, <<"bc-e", <<"bc", "e">>>>,
     <<"don&#x27;t", <<"don", "x27", "t">>>>, <<"ravi@example.com", <<"ravi",
     "example", "com">>>>, <<"sc-1", <<"sc", "1">>>>, <<"sc-2", <<"sc", "2">>>>,
     <<"sc-3", <<"sc", "3">>>>, <<"sc-i", <<"sc", "i">>>>, <<"sc-ii", <<"sc",
     "ii">>>>, <<"sc-iii", <<"sc", "iii">>>>}

\* the tokens whose runs of word characters are joined by single hyphens
HyphenTokens ==
    {"bc-a", "bc-b", "bc-c", "bc-d", "bc-e",
     "sc-i", "sc-ii", "sc-iii", "sc-1", "sc-2", "sc-3"}

\* <<word, its decimal digits>>, for the tokens and the runs of word
\* characters that match \d+
DigitWords ==
    {<<"0", <<0>>>>, <<"1", <<1>>>>, <<"12345", <<1, 2, 3, 4, 5>>>>, <<"2", <<2>>>>,
     <<"200000", <<2, 0, 0, 0, 0, 0>>>>, <<"200001", <<2, 0, 0, 0, 0, 1>>>>, <<"3",
     <<3>>>>, <<"300000", <<3, 0, 0, 0, 0, 0>>>>, <<"4", <<4>>>>, <<"5", <<5>>>>,
     <<"5000", <<5, 0, 0, 0>>>>, <<"9876543210", <<9, 8, 7, 6, 5, 4, 3, 2, 1, 0>>>>}

\* <<token, the digits matched>>, for the tokens in which (\d+)k\b matches
DigitKWords ==
    {<<"21k", <<2, 1>>>>}

\* <<token, the digits it ends with>>, for the tokens that end with a
\* digit: what (\d+) matches when the blank and the k follow the token
DigitTails ==
    {<<"-5", <<5>>>>, <<"0", <<0>>>>, <<"1", <<1>>>>, <<"12345", <<1, 2, 3, 4, 5>>>>,
     <<"2", <<2>>>>, <<"200000", <<2, 0, 0, 0, 0, 0>>>>, <<"200001", <<2, 0, 0, 0, 0,
     1>>>>, <<"3", <<3>>>>, <<"300000", <<3, 0, 0, 0, 0, 0>>>>, <<"4", <<4>>>>,
     <<"5000", <<5, 0, 0, 0>>>>, <<"9876543210", <<9, 8, 7, 6, 5, 4, 3, 2, 1, 0>>>>,
     <<"sc-1", <<1>>>>, <<"sc-2", <<2>>>>, <<"sc-3", <<3>>>>}

\* the tokens that start with k\b
KHeads ==
    {"k"}

\* the tokens matching ^[a-zA-Z0-9._%+-]+@[a-zA-Z0-9.-]+\.[a-zA-Z]{2,}$
EmailTokens == {"ravi@example.com"}

\* <<token, len(token)>>
TokLenPairs ==
    {<<"-5", 2>>, <<"0", 1>>, <<"1", 1>>, <<"12345", 5>>, <<"2", 1>>, <<"200000", 6>>,
     <<"200001", 6>>, <<"21k", 3>>, <<"3", 1>>, <<"300000", 6>>, <<"4", 1>>, <<"5000",
     4>>, <<"9876543210", 10>>, <<"all", 3>>, <<"bc-a", 4>>, <<"bc-b", 4>>, <<"bc-c",
     4>>, <<"bc-d", 4>>, <<"bc-e", 4>>, <<"boys", 4>>, <<"call", 4>>, <<"can", 3>>,
     <<"cse", 3>>, <<"cutoff", 6>>, <<"don&#x27;t", 10>>, <<"ece", 3>>, <<"fee", 3>>,
     <<"fraud", 5>>, <<"get", 3>>, <<"girls", 5>>, <<"have", 4>>, <<"hi", 2>>, <<"i",
     1>>, <<"iit", 3>>, <<"it", 2>>, <<"k", 1>>, <<"know", 4>>, <<"mca", 3>>, <<"me",
     2>>, <<"no", 2>>, <<"not", 3>>, <<"oc", 2>>, <<"other", 5>>, <<"rank", 4>>,
     <<"ravi", 4>>, <<"ravi@example.com", 16>>, <<"sc-1", 4>>, <<"sc-2", 4>>,
     <<"sc-3", 4>>, <<"sc-i", 4>>, <<"sc-ii", 5>>, <<"sc-iii", 6>>, <<"skip", 4>>,
     <<"sure", 4>>, <<"with", 4>>, <<"yes", 3>>}

\* <<k, token>>: the keyword word k is a proper substring of the token
ContainsPairs ==
    {<<"1", "12345">>, <<"1", "200001">>, <<"1", "21k">>, <<"1", "9876543210">>,
     <<"1", "sc-1">>, <<"2", "12345">>, <<"2", "200000">>, <<"2", "200001">>, <<"2",
     "21k">>, <<"2", "9876543210">>, <<"2", "don&#x27;t">>, <<"2", "sc-2">>, <<"3",
     "12345">>, <<"3", "300000">>, <<"3", "9876543210">>, <<"3", "sc-3">>, <<"4",
     "12345">>, <<"4", "9876543210">>, <<"am", "ravi@example.com">>, <<"cut",
     "cutoff">>, <<"do", "don&#x27;t">>, <<"i", "girls">>, <<"i", "hi">>, <<"i",
     "iit">>, <<"i", "it">>, <<"i", "ravi">>, <<"i", "ravi@example.com">>, <<"i",
     "sc-i">>, <<"i", "sc-ii">>, <<"i", "sc-iii">>, <<"i", "skip">>, <<"i", "with">>,
     <<"no", "know">>, <<"no", "not">>, <<"off", "cutoff">>, <<"the", "other">>,
     <<"to", "cutoff">>}

\* <<k, token>>: the token properly starts with the keyword word k
StartsPairs ==
    {<<"1", "12345">>, <<"2", "200000">>, <<"2", "200001">>, <<"2", "21k">>, <<"3",
     "300000">>, <<"cut", "cutoff">>, <<"do", "don&#x27;t">>, <<"i", "iit">>, <<"i",
     "it">>, <<"no", "not">>}

\* <<k, token>>: the token properly ends with the keyword word k
EndsPairs ==
    {<<"1", "200001">>, <<"1", "sc-1">>, <<"2", "sc-2">>, <<"3", "sc-3">>, <<"i",
     "hi">>, <<"i", "ravi">>, <<"i", "sc-i">>, <<"i", "sc-ii">>, <<"i", "sc-iii">>,
     <<"off", "cutoff">>}

\* ------------------------------------------------------------------------
\* Text helpers
\* ------------------------------------------------------------------------

\* Python None where a text is expected; an absent text and the empty text
\* are both falsy, and no stored text is empty
None == <<>>

\* extract_rank's None; it returns no other value outside 1..200000
NoRank == 0

Lookup(pairs, k, default) ==
    IF \E p \in pairs : p[1] = k
    THEN (CHOOSE p \in pairs : p[1] = k)[2]
    ELSE default

RECURSIVE Flatten(_)
Flatten(ss) == IF ss = <<>> THEN <<>> ELSE Head(ss) \o Flatten(Tail(ss))

\* the \w+ runs of a text, in order (what \b...\b patterns can match)
Words(text) == Flatten([i \in 1..Len(text) |-> Lookup(SplitTokens, text[i], <<text[i]>>)])

\* str.upper()
Upper(text) == [i \in 1..Len(text) |-> Lookup(UpperPairs, text[i], text[i])]

\* len(text): the tokens and the single blanks between them
CharLen(text) ==
    LET RECURSIVE Sum(_)
        Sum(i) == IF i = 0 THEN 0 ELSE Lookup(TokLenPairs, text[i], 1) + Sum(i - 1)
    IN  IF text = <<>> THEN 0 ELSE Sum(Len(text)) + Len(text) - 1

TokContains(t, k) == t = k \/ <<k, t>> \in ContainsPairs
TokStarts(t, k) == t = k \/ <<k, t>> \in StartsPairs
TokEnds(t, k) == t = k \/ <<k, t>> \in EndsPairs

\* `phrase in text` (substring test); phrase is the keyword split at blanks
InText(phrase, text) ==
    LET n == Len(phrase) IN
    IF n = 1
    THEN \E i \in 1..Len(text) : TokContains(text[i], phrase[1])
    ELSE \E i \in 1..(Len(text) - n + 1) :
            /\ TokEnds(text[i], phrase[1])
            /\ TokStarts(text[i + n - 1], phrase[n])
            /\ \A j \in 2..(n - 1) : text[i + j - 1] = phrase[j]

AnyInText(phrases, text) == \E p \in phrases : InText(p, text)

\* re.search(r"\bw1\s+w2...\b", text): the words of phrase in a row
WordsInText(phrase, text) ==
    LET ws == Words(text)
        n == Len(phrase)
    IN  \E i \in 1..(Len(ws) - n + 1) : \A j \in 1..n : ws[i + j - 1] = phrase[j]

RECURSIVE ParseInt(_)
\* int(digits)
ParseInt(d) == IF d = <<>> THEN 0 ELSE ParseInt(SubSeq(d, 1, Len(d) - 1)) * 10 + d[Len(d)]

\* ------------------------------------------------------------------------
\* app/utils/validators.py
\* ------------------------------------------------------------------------

\* strip and blank-collapsing are the token form itself; text[:1000] is
\* not reached by the messages of the model
sanitise_input(raw) == [i \in 1..Len(raw) |-> Lookup(EscapedTokens, raw[i], raw[i])]

RANK_MAX == 200000

RECURSIVE Significant(_)
\* the digits int() reads a value from: those after the leading zeros
Significant(d) == IF d # <<>> /\ d[1] = 0 THEN Significant(Tail(d)) ELSE d

\* InRankRange without the upper limit
InRankRange_NoCeiling(d, scale) ==
    /\ Len(Significant(d)) <= 6
    /\ ParseInt(Significant(d)) * scale >= 1

\* 1 <= int(digits) * scale <= 200000, on digit strings of any length: a
\* number of more than six significant digits is above the limit
InRankRange(d, scale) ==
    /\ Len(Significant(d)) <= 6
    /\ ParseInt(Significant(d)) * scale >= 1
    /\ ParseInt(Significant(d)) * scale <= RANK_MAX

\* index of the first token in which a match of (\d+)\s*k\b starts, or 0:
\* the match lies within the token, or it is the digits the token ends
\* with, the blank, and the k the next token starts with
FirstKMatch(text) ==
    LET hit(i) == \/ Lookup(DigitKWords, text[i], <<>>) # <<>>
                  \/ /\ Lookup(DigitTails, text[i], <<>>) # <<>>
                     /\ i < Len(text)
                     /\ text[i + 1] \in KHeads
        H == {i \in 1..Len(text) : hit(i)}
    IN  IF H = {} THEN 0 ELSE CHOOSE i \in H : \A j \in H : i <= j

\* the digits of the first word matching \b(\d+)\b, or <<>>
FirstNumber(text) ==
    LET ws == Words(text)
        H == {i \in 1..Len(ws) : Lookup(DigitWords, ws[i], <<>>) # <<>>}
    IN  IF H = {} THEN <<>>
        ELSE Lookup(DigitWords, ws[CHOOSE i \in H : \A j \in H : i <= j], <<>>)

extract_rank(text) ==
    LET k == FirstKMatch(text)
        kd == IF k = 0 THEN <<>>
              ELSE IF Lookup(DigitKWords, text[k], <<>>) # <<>>
                   THEN Lookup(DigitKWords, text[k], <<>>)
                   ELSE Lookup(DigitTails, text[k], <<>>)
        nd == FirstNumber(text)
    IN  IF k # 0
        THEN IF InRankRange(kd, 1000) THEN ParseInt(kd) * 1000 ELSE NoRank
        ELSE IF nd # <<>>
             THEN IF InRankRange(nd, 1) THEN ParseInt(nd) ELSE NoRank
             ELSE NoRank

\* _BRANCH_PATTERNS in source order: the single words each pattern matches
\* and its branch code
BRANCH_PATTERNS ==
    << [words |-> {"aiml", "cseaiml", "csecsm"}, code |-> "CSE-CSM"],
       [words |-> {"aids", "cseaids"}, code |-> "AID"],
       [words |-> {"aid", "aids"}, code |-> "AID"],
       [words |-> {"csd", "cseds", "csecsd"}, code |-> "CSE-CSD"],
       [words |-> {}, code |-> "CSE-CSD"],
       [words |-> {"cybersecurity", "csc", "csecys", "csecsc"}, code |-> "CSE-CSC"],
       [words |-> {"cso", "cseiot", "csecso"}, code |-> "CSE-CSO"],
       [words |-> {"iot"}, code |-> "CSE-CSO"],
       [words |-> {"csb", "csebs"}, code |-> "CSB"],
       [words |-> {"csm"}, code |-> "CSE-CSM"],
       [words |-> {"cse"}, code |-> "CSE"],
       [words |-> {"cs"}, code |-> "CSE"],
       [words |-> {"eee"}, code |-> "EEE"],
       [words |-> {"electrical"}, code |-> "EEE"],
       [words |-> {"ee"}, code |-> "EEE"],
       [words |-> {"ece"}, code |-> "ECE"],
       [words |-> {"electronics"}, code |-> "ECE"],
       [words |-> {"ec"}, code |-> "ECE"],
       [words |-> {"it"}, code |-> "IT"],
       [words |-> {"mechanical", "mech"}, code |-> "ME"],
       [words |-> {"me"}, code |-> "ME"],
       [words |-> {"civil", "civ"}, code |-> "CIV"],
       [words |-> {"ce"}, code |-> "CIV"],
       [words |-> {"robotics", "rai"}, code |-> "RAI"],
       [words |-> {"vlsi"}, code |-> "VLSI"],
       [words |-> {"automobile", "aut"}, code |-> "AUT"],
       [words |-> {"biotechnology", "biotech", "bio"}, code |-> "BIO"],
       [words |-> {"instrumentation", "eie"}, code |-> "EIE"] >>

HasWord(ws, set) == \E i \in 1..Len(ws) : ws[i] \in set

\* code of the first entry of patterns with a word in the text, or None
FirstPattern(patterns, text) ==
    LET ws == Words(text)
        H == {i \in 1..Len(patterns) : HasWord(ws, patterns[i].words)}
    IN  IF H = {} THEN None ELSE <<patterns[CHOOSE i \in H : \A j \in H : i <= j].code>>

extract_branch(text) == FirstPattern(BRANCH_PATTERNS, text)

RECURSIVE FoundBranches(_, _, _)
FoundBranches(ws, i, found) ==
    IF i > Len(BRANCH_PATTERNS) THEN found
    ELSE LET b == <<BRANCH_PATTERNS[i].code>> IN
         IF HasWord(ws, BRANCH_PATTERNS[i].words) /\ ~(\E j \in 1..Len(found) : found[j] = b)
         THEN FoundBranches(ws, i + 1, Append(found, b))
         ELSE FoundBranches(ws, i + 1, found)

\* a list of branch codes (each a text), ["ALL"], or the empty list
extract_branches(text) ==
    IF HasWord(Words(text), {"all", "every", "each"})
    THEN << <<"ALL">> >>
    ELSE FoundBranches(Words(text), 1, <<>>)

\* cat_patterns, in the order of the dict: the words each pattern matches
\* between word boundaries, and the pairs of words it matches with one
\* blank or one hyphen between them ([\s-]?), or, in the first entry, with
\* blanks only (\s*)
CAT_PATTERNS ==
    << [words |-> {"oc", "general", "opencategory", "generalcategory"},
        pairs |-> {<<"open", "category">>, <<"general", "category">>},
        hyphen |-> FALSE, code |-> "OC"],
       [words |-> {"obc", "bcd"}, pairs |-> {<<"bc", "d">>}, hyphen |-> TRUE,
        code |-> "BC-D"],
       [words |-> {"bca"}, pairs |-> {<<"bc", "a">>}, hyphen |-> TRUE, code |-> "BC-A"],
       [words |-> {"bcb"}, pairs |-> {<<"bc", "b">>}, hyphen |-> TRUE, code |-> "BC-B"],
       [words |-> {"bcc"}, pairs |-> {<<"bc", "c">>}, hyphen |-> TRUE, code |-> "BC-C"],
       [words |-> {"bce"}, pairs |-> {<<"bc", "e">>}, hyphen |-> TRUE, code |-> "BC-E"],
       [words |-> {"sciii", "sc3"}, pairs |-> {<<"sc", "iii">>, <<"sc", "3">>},
        hyphen |-> TRUE, code |-> "SC-III"],
       [words |-> {"scii", "sc2"}, pairs |-> {<<"sc", "ii">>, <<"sc", "2">>},
        hyphen |-> TRUE, code |-> "SC-II"],
       [words |-> {"sci", "sc1"}, pairs |-> {<<"sc", "i">>, <<"sc", "1">>},
        hyphen |-> TRUE, code |-> "SC-I"],
       [words |-> {"sc"}, pairs |-> {}, hyphen |-> FALSE, code |-> "SC"],
       [words |-> {"st"}, pairs |-> {}, hyphen |-> FALSE, code |-> "ST"],
       [words |-> {"ews"}, pairs |-> {}, hyphen |-> FALSE, code |-> "EWS"] >>

\* re.search(pattern, text, re.I) for one entry of cat_patterns: one of its
\* words is a word of the text, or one of its pairs ends one token of the
\* text and starts the next, or stands on either side of a hyphen within a
\* token
CategoryMatch(row, text) ==
    LET runs(t) == Lookup(SplitTokens, t, <<t>>) IN
    \/ HasWord(Words(text), row.words)
    \/ \E p \in row.pairs : \E i \in 1..(Len(text) - 1) :
          /\ runs(text[i])[Len(runs(text[i]))] = p[1]
          /\ runs(text[i + 1])[1] = p[2]
    \/ /\ row.hyphen
       /\ \E p \in row.pairs : \E i \in 1..Len(text) :
             /\ text[i] \in HyphenTokens
             /\ \E j \in 1..(Len(runs(text[i])) - 1) :
                   runs(text[i])[j] = p[1] /\ runs(text[i])[j + 1] = p[2]

\* the category of the first entry of cat_patterns the text matches, or None
extract_category(text) ==
    LET H == {i \in 1..Len(CAT_PATTERNS) : CategoryMatch(CAT_PATTERNS[i], text)}
    IN  IF H = {} THEN None ELSE <<CAT_PATTERNS[CHOOSE i \in H : \A j \in H : i <= j].code>>

extract_gender(text) ==
    IF HasWord(Words(text), {"girl", "girls", "female", "women", "woman", "daughter"})
    THEN <<"Girls">>
    ELSE IF HasWord(Words(text), {"boy", "boys", "male", "men", "man", "son"})
         THEN <<"Boys">>
         ELSE None

\* ------------------------------------------------------------------------
\* app/classifier/intent_classifier.py
\* ------------------------------------------------------------------------

OTHER_COLLEGES ==
    {<<"iit">>, <<"nit">>, <<"iiit">>, <<"bits">>, <<"vit">>, <<"srm">>, <<"manipal">>,
     <<"amrita">>, <<"jntu">>, <<"osmania">>, <<"cbit">>, <<"chaitanya">>, <<"vasavi">>,
     <<"muffakham">>, <<"mgit">>, <<"cvr">>, <<"mlr">>, <<"anurag">>, <<"cmr">>,
     <<"gokaraju">>, <<"griet">>, <<"bvrit">>, <<"keshav">>, <<"matrusri">>,
     <<"stanley">>, <<"anna", "university">>, <<"mit">>, <<"harvard">>,
     <<"xyz", "college">>, <<"abc", "college">>}

COMPARE_PATTERNS ==
    {<<"compare">>, <<"comparison">>, <<"comparing">>, <<"vs">>, <<"versus">>,
     <<"better", "than">>, <<"ranking", "of">>, <<"ranking", "for">>,
     <<"rankings", "of">>, <<"rankings", "for">>, <<"national", "cutoff">>,
     <<"predict">>, <<"prediction">>, <<"predicted">>, <<"predicting">>}

CUTOFF_KEYWORDS ==
    {<<"cutoff">>, <<"cut-off">>, <<"cut", "off">>,
     <<"last", "rank">>, <<"closing", "rank">>, <<"opening", "rank">>,
     <<"eapcet">>, <<"tseamcet">>, <<"ts", "eamcet">>, <<"ap", "eamcet">>, <<"tgeapcet">>,
     <<"seat", "allotment">>, <<"counselling">>, <<"counseling">>,
     <<"trend">>, <<"trends">>, <<"trending">>, <<"rank", "trend">>,
     <<"previous", "year">>, <<"previous", "years">>, <<"past", "year">>,
     <<"past", "years">>, <<"historical", "rank">>, <<"historical", "cutoff">>,
     <<"year", "by", "year">>, <<"over", "the", "years">>, <<"across", "years">>,
     <<"comparison", "over", "years">>}

ELIGIBILITY_KEYWORDS ==
    {<<"eligible">>, <<"eligibility">>, <<"can", "i", "get">>, <<"will", "i", "get">>,
     <<"chance">>, <<"get", "admission">>, <<"my", "rank">>, <<"admission", "chance">>,
     <<"will", "i">>, <<"can", "i">>, <<"do", "i", "qualify">>, <<"am", "i", "eligible">>,
     <<"check", "eligibility">>, <<"seat", "eligibility">>, <<"rank", "check">>}

GREETING_KEYWORDS ==
    {<<"hi">>, <<"hello">>, <<"hey">>, <<"thanks">>, <<"thank", "you">>, <<"bye">>,
     <<"good", "morning">>, <<"good", "afternoon">>, <<"good", "evening">>}

\* the college's own names contain none of OTHER_COLLEGES, so the
\* `college not in safe` tests never exclude one
mentions_other_college(query) == \E c \in OTHER_COLLEGES : WordsInText(c, query)

has_compare_intent(query) == \E p \in COMPARE_PATTERNS : WordsInText(p, query)

is_greeting(query) == AnyInText(GREETING_KEYWORDS, query) /\ Len(query) <= 3

has_cutoff_intent(query) == AnyInText(CUTOFF_KEYWORDS, query)

has_eligibility_intent(query) == AnyInText(ELIGIBILITY_KEYWORDS, query)

Card01(b) == IF b THEN 1 ELSE 0

looks_like_cutoff_data(query) ==
    Card01(extract_branch(query) # None) + Card01(extract_category(query) # None)
      + Card01(extract_gender(query) # None) + Card01(extract_rank(query) # NoRank) >= 3

\* the keyword path of classify; the tokens of Vocabulary are ASCII, so
\* _is_non_english is false and the LLM classifier is not consulted
classify(query) ==
    IF is_greeting(query) THEN "greeting"
    ELSE IF mentions_other_college(query) \/ has_compare_intent(query) THEN "out_of_scope"
    ELSE IF has_eligibility_intent(query) THEN "eligibility"
    ELSE IF looks_like_cutoff_data(query)
         THEN IF extract_rank(query) # NoRank THEN "eligibility" ELSE "cutoff"
    ELSE IF has_cutoff_intent(query) /\ Len(query) > 12 THEN "mixed"
    ELSE IF has_cutoff_intent(query) THEN "cutoff"
    ELSE "informational"

\* ------------------------------------------------------------------------
\* app/api/chat.py: state
\* ------------------------------------------------------------------------

VARIABLES
    rate_buckets,            \* _rate_buckets: client -> list of timestamps
    session_history,         \* _session_history: session -> list of messages
    session_pending_intent,  \* _session_pending_intent: session -> marker
    session_cutoff_data,     \* _session_cutoff_data: session -> dict
    session_last_cutoff,     \* _session_last_cutoff: session -> dict
    session_contact_data,    \* _session_contact_data: session -> dict
    clock,                   \* the latest value time.time() returned
    cfg,                     \* settings and the inputs the environment offers
    last,                    \* the latest request and the response it got
    admitted,                \* history: client -> times of its requests let through
    known,                   \* history: session -> fields learnt in its current flow
    inflight                 \* requests received whose handler has not run yet

vars == <<rate_buckets, session_history, session_pending_intent, session_cutoff_data,
          session_last_cutoff, session_contact_data, clock, cfg, last, admitted, known,
          inflight>>

MAX_HISTORY == 10
WINDOW == 60

\* Python dicts are functions whose domain is the set of keys present
EmptyDict == <<>>
Put(d, k, v) == [x \in DOMAIN d \cup {k} |-> IF x = k THEN v ELSE d[x]]
Del(d, k) == [x \in DOMAIN d \ {k} |-> d[x]]
Get(d, k, default) == IF k \in DOMAIN d THEN d[k] ELSE default

CUTOFF_QUESTIONS == <<"branch", "category", "gender">>
ELIGIBILITY_QUESTIONS == <<"branch", "category", "gender", "rank">>
CONTACT_QUESTIONS == <<"name", "email", "phone", "programme", "query_type">>

\* list_branches(): the distinct branches of the cutoff collection, sorted
BranchCatalog == << <<"CSE">>, <<"ECE">>, <<"IT">> >>

DB_SOURCE == "VNRVJIET Cutoff Database"
RAG_SOURCE == "chunk.filename (chunk.source)"

\* a reply text, named after the string literal it stands for, with the
\* values formatted into it
Reply(text, args) == [text |-> text, args |-> args]
NoReply == Reply("", <<>>)

Ok(reply, intent, sources) ==
    [status |-> 200, reply |-> reply, intent |-> intent, sources |-> sources]
\* HTTPException(status) or an uncaught exception (500)
Err(status) == [status |-> status, reply |-> NoReply, intent |-> "", sources |-> {}]

\* the call a request makes to look the cutoffs up or to save a contact
\* request, with whether the session was in a flow store when the call was
\* made, and the collection the store held for it then
NoCall == [to |-> "none", active |-> FALSE, data |-> EmptyDict]

\* the session maps as one record, the response, and the call made
Cur ==
    [hist |-> session_history, pend |-> session_pending_intent,
     cutoff |-> session_cutoff_data, lastc |-> session_last_cutoff,
     contact |-> session_contact_data, resp |-> Err(0), call |-> NoCall]

\* a call made for session s when the maps are those of st
CallAt(to, s, st) ==
    [to |-> to, active |-> s \in DOMAIN st.contact \/ s \in DOMAIN st.cutoff,
     data |-> IF s \in DOMAIN st.contact THEN st.contact[s]
              ELSE IF s \in DOMAIN st.cutoff THEN st.cutoff[s] ELSE EmptyDict]

\* the two appends of a turn; content is written but never read back by
\* the handler's control flow, so only the role is kept
AppendTurn(h, s) ==
    Put(h, s, Get(h, s, <<>>) \o <<[role |-> "user"], [role |-> "assistant"]>>)

\* .get("_waiting_for")
WaitingFor(collected) == Get(collected, "_waiting_for", "None")

\* `field not in collected or collected[field] is None`
Missing(collected, field) ==
    \/ field \notin DOMAIN collected
    \/ field # "rank" /\ collected[field] = None

\* index of the first question whose field is missing, or 0
FirstMissing(questions, collected) ==
    LET H == {i \in 1..Len(questions) : Missing(collected, questions[i])}
    IN  IF H = {} THEN 0 ELSE CHOOSE i \in H : \A j \in H : i <= j

\* _build_multi_branch_reply: one lookup result per branch
LookupReply(branches, category, gender, rank) ==
    Reply("lookup", <<branches, category, gender, rank>>)

\* ------------------------------------------------------------------------
\* chat(): contact collection mode (lines 308-470)
\* ------------------------------------------------------------------------

\* FirstPhone that returns the whole answer when it holds a phone number
FirstPhone_WholeText(text) ==
    IF \E i \in 1..Len(Words(text)) : Len(Lookup(DigitWords, Words(text)[i], <<>>)) = 10
    THEN text ELSE None

\* re.search(r"\b(\d{10})\b", user_msg): the first ten-digit word, or None
FirstPhone(text) ==
    LET ws == Words(text)
        H == {i \in 1..Len(ws) : Len(Lookup(DigitWords, ws[i], <<>>)) = 10}
    IN  IF H = {} THEN None ELSE <<ws[CHOOSE i \in H : \A j \in H : i <= j]>>

\* the e-mail pattern is anchored and admits no blank
IsEmail(text) == Len(text) = 1 /\ text[1] \in EmailTokens

\* ParseProgramme that takes an answer naming no choice as it is, the way
\* the category question does
ParseProgramme_Fallback(m) ==
    IF AnyInText({<<"1">>, <<"b.tech">>, <<"btech">>, <<"bachelor">>}, m) THEN <<"B.Tech">>
    ELSE IF AnyInText({<<"2">>, <<"m.tech">>, <<"mtech">>, <<"master">>}, m) THEN <<"M.Tech">>
    ELSE IF AnyInText({<<"3">>, <<"mca">>}, m) THEN <<"MCA">>
    ELSE Upper(m)

ParseProgramme(m) ==
    IF AnyInText({<<"1">>, <<"b.tech">>, <<"btech">>, <<"bachelor">>}, m) THEN <<"B.Tech">>
    ELSE IF AnyInText({<<"2">>, <<"m.tech">>, <<"mtech">>, <<"master">>}, m) THEN <<"M.Tech">>
    ELSE IF AnyInText({<<"3">>, <<"mca">>}, m) THEN <<"MCA">>
    ELSE None

ParseQueryType(m) ==
    IF AnyInText({<<"1">>, <<"fraud">>, <<"agent">>, <<"scam">>}, m) THEN <<"fraud_report">>
    ELSE IF AnyInText({<<"2">>, <<"general">>, <<"inquiry">>, <<"admission">>}, m)
         THEN <<"general_inquiry">>
    ELSE IF AnyInText({<<"3">>, <<"not", "satisfied">>, <<"dissatisfied">>, <<"chatbot">>}, m)
         THEN <<"dissatisfied">>
    ELSE IF AnyInText({<<"4">>, <<"other">>}, m) THEN <<"other">>
    ELSE None

\* the value the answer gives for the awaited contact field, or None when
\* the answer is refused (lines 314-387)
ContactValue(w, m) ==
    CASE w = "name" -> IF CharLen(m) < 2 THEN None ELSE m
      [] w = "email" -> IF IsEmail(m) THEN m ELSE None
      [] w = "phone" -> FirstPhone(m)
      [] w = "programme" -> ParseProgramme(m)
      [] w = "query_type" -> ParseQueryType(m)
      [] OTHER -> m

\* the re-prompt of each validated contact field
ContactReprompt(w) ==
    CASE w = "name" -> "name_too_short"
      [] w = "email" -> "email_invalid"
      [] w = "phone" -> "phone_invalid"
      [] w = "programme" -> "programme_invalid"
      [] w = "query_type" -> "query_type_invalid"

ContactAsk(s, m, collected, field, text, args) ==
    [Cur EXCEPT !.contact = Put(session_contact_data, s, Put(collected, "_waiting_for", field)),
                !.hist = AppendTurn(session_history, s),
                !.resp = Ok(Reply(text, args), "contact_request", {})]

\* ContactSubmit that keeps the session in the flow when the save fails
ContactSubmit_KeepOnFailure(s, m, collected, e) ==
    LET reply == CASE e.save = "ok" ->
                        Reply("contact_submitted",
                              <<collected["name"], collected["email"], collected["phone"],
                                collected["programme"],
                                collected["query_type"]
                                    \notin {<<"fraud_report">>, <<"general_inquiry">>}>>)
                   [] e.save = "fail" -> Reply("contact_failed", <<>>)
                   [] OTHER -> Reply("contact_error", <<>>)
    IN  [Cur EXCEPT !.contact = IF e.save = "ok" THEN Del(session_contact_data, s)
                                ELSE session_contact_data,
                    !.hist = AppendTurn(session_history, s),
                    !.resp = Ok(reply, "contact_request", {})]

\* ContactSubmit that submits the word "skip" as the message
ContactSubmit_SkipAsText(s, m, collected, e) ==
    LET reply == CASE e.save = "ok" ->
                        Reply("contact_submitted",
                              <<collected["name"], collected["email"], collected["phone"],
                                collected["programme"],
                                collected["query_type"]
                                    \notin {<<"fraud_report">>, <<"general_inquiry">>}>>)
                   [] e.save = "fail" -> Reply("contact_failed", <<>>)
                   [] OTHER -> Reply("contact_error", <<>>)
        saving == [Cur EXCEPT !.contact = Put(session_contact_data, s, collected)]
    IN  [Cur EXCEPT !.contact = Del(session_contact_data, s),
                    !.hist = AppendTurn(session_history, s),
                    !.resp = Ok(reply, "contact_request", {}),
                    !.call = IF e.save = "import_error" THEN NoCall
                             ELSE CallAt("save", s, saving)]

\* lines 410-470: the skip marker, the import and the save in the try
\* block, and the clean-up; an exception of either gets the same reply
ContactSubmit(s, m, collected, e) ==
    LET c2 == IF WaitingFor(collected) = "message" /\ m = <<"skip">>
              THEN Put(collected, "message", None)
              ELSE collected
        reply == CASE e.save = "ok" ->
                        Reply("contact_submitted",
                              <<c2["name"], c2["email"], c2["phone"], c2["programme"],
                                c2["query_type"] \notin {<<"fraud_report">>, <<"general_inquiry">>}>>)
                   [] e.save = "fail" -> Reply("contact_failed", <<>>)
                   [] OTHER -> Reply("contact_error", <<>>)
        saving == [Cur EXCEPT !.contact = Put(session_contact_data, s, c2)]
    IN  [Cur EXCEPT !.contact = Del(session_contact_data, s),
                    !.hist = AppendTurn(session_history, s),
                    !.resp = Ok(reply, "contact_request", {}),
                    !.call = IF e.save = "import_error" THEN NoCall
                             ELSE CallAt("save", s, saving)]

\* lines 389-408: the next question, or the submission
ContactNext(s, m, collected, e) ==
    LET i == FirstMissing(CONTACT_QUESTIONS, collected) IN
    IF i # 0
    THEN ContactAsk(s, m, collected, CONTACT_QUESTIONS[i], "ask_" \o CONTACT_QUESTIONS[i],
                    IF CONTACT_QUESTIONS[i] = "email"
                    THEN <<Get(collected, "name", <<"there">>)>> ELSE <<>>)
    ELSE IF "message" \notin DOMAIN collected
         THEN ContactAsk(s, m, collected, "message", "ask_message", <<>>)
         ELSE ContactSubmit(s, m, collected, e)

\* ContactContinue that keeps a phone answer it could not validate
ContactContinue_KeepInvalid(s, m, e) ==
    LET collected == session_contact_data[s]
        w == WaitingFor(collected)
        validated == w \in {"name", "email", "programme", "query_type"}
        val == IF w = "phone" /\ ContactValue(w, m) = None THEN m ELSE ContactValue(w, m)
    IN  IF validated /\ val = None
        THEN [Cur EXCEPT !.hist = AppendTurn(session_history, s),
                         !.resp = Ok(Reply(ContactReprompt(w), <<>>), "contact_request", {})]
        ELSE IF validated \/ w \in {"phone", "message"}
             THEN ContactNext(s, m, Put(collected, w, val), e)
             ELSE ContactNext(s, m, collected, e)

\* ContactContinue that lets a greeting end the flow
ContactContinue_EndsOnGreeting(s, m, e) ==
    LET collected == session_contact_data[s]
        w == WaitingFor(collected)
        validated == w \in {"name", "email", "phone", "programme", "query_type"}
        val == ContactValue(w, m)
    IN  IF is_greeting(m)
        THEN [Cur EXCEPT !.contact = Del(session_contact_data, s),
                         !.hist = AppendTurn(session_history, s),
                         !.resp = Ok(Reply("greeting", <<>>), "greeting", {})]
        ELSE IF validated /\ val = None
        THEN [Cur EXCEPT !.hist = AppendTurn(session_history, s),
                         !.resp = Ok(Reply(ContactReprompt(w), <<>>), "contact_request", {})]
        ELSE IF validated \/ w = "message"
             THEN ContactNext(s, m, Put(collected, w, val), e)
             ELSE ContactNext(s, m, collected, e)

ContactContinue(s, m, e) ==
    LET collected == session_contact_data[s]
        w == WaitingFor(collected)
        validated == w \in {"name", "email", "phone", "programme", "query_type"}
        val == ContactValue(w, m)
    IN  IF validated /\ val = None
        THEN [Cur EXCEPT !.hist = AppendTurn(session_history, s),
                         !.resp = Ok(Reply(ContactReprompt(w), <<>>), "contact_request", {})]
        ELSE IF validated \/ w = "message"
             THEN ContactNext(s, m, Put(collected, w, val), e)
             ELSE ContactNext(s, m, collected, e)

\* ------------------------------------------------------------------------
\* chat(): cutoff / eligibility collection mode (lines 472-643)
\* ------------------------------------------------------------------------

AFFIRMATIVE == {<<"yes">>, <<"y">>, <<"yeah">>, <<"yep">>, <<"sure">>, <<"ok">>, <<"okay">>}

NO_RANK_PHRASES ==
    {<<"no", "rank">>, <<"don't", "have">>, <<"dont", "have">>, <<"no">>,
     <<"don't", "know">>, <<"not", "sure">>, <<"skip">>}

Questions(collected) ==
    IF Get(collected, "_flow", "cutoff") = "eligibility"
    THEN ELIGIBILITY_QUESTIONS ELSE CUTOFF_QUESTIONS

\* ConfirmReuse that copies the saved branch and category but not the gender
ConfirmReuse_DropsGender(s, m, collected, e) ==
    IF m \in AFFIRMATIVE
    THEN LET reuse == Get(collected, "_reuse_data", EmptyDict)
             c1 == Put(Put(collected, "branch", Get(reuse, "branch", None)),
                       "category", Get(reuse, "category", None))
         IN  IF Get(collected, "_extracted_rank", NoRank) # NoRank
             THEN LET done == [Cur EXCEPT !.cutoff = Del(session_cutoff_data, s),
                                          !.pend = Del(session_pending_intent, s)]
                  IN  IF ~e.db
                      THEN [done EXCEPT !.resp = Err(500)]
                      ELSE [done EXCEPT
                              !.hist = AppendTurn(session_history, s),
                              !.resp = Ok(LookupReply(c1["branch"], c1["category"],
                                                      Get(c1, "gender", None),
                                                      collected["_extracted_rank"]),
                                          "eligibility", {DB_SOURCE})]
             ELSE [Cur EXCEPT
                     !.cutoff = Put(session_cutoff_data, s, Put(c1, "_waiting_for", "rank")),
                     !.hist = AppendTurn(session_history, s),
                     !.resp = Ok(Reply("ask_rank_reuse", <<>>), "cutoff", {})]
    ELSE LET fresh == Put(Put(EmptyDict, "_flow", "eligibility"), "_waiting_for", "branch")
             cleared == [Cur EXCEPT !.cutoff = Put(session_cutoff_data, s, fresh)]
         IN  IF ~e.db
             THEN [cleared EXCEPT !.resp = Err(500)]
             ELSE [cleared EXCEPT
                     !.hist = AppendTurn(session_history, s),
                     !.resp = Ok(Reply("ask_branch_fresh", <<BranchCatalog>>), "cutoff", {})]

\* ConfirmReuse that keeps a carried rank when the offer is declined
ConfirmReuse_KeepsRank(s, m, collected, e) ==
    IF m \in AFFIRMATIVE
    THEN LET reuse == Get(collected, "_reuse_data", EmptyDict)
             c1 == Put(Put(Put(collected, "branch", Get(reuse, "branch", None)),
                           "category", Get(reuse, "category", None)),
                       "gender", Get(reuse, "gender", None))
         IN  IF Get(collected, "_extracted_rank", NoRank) # NoRank
             THEN LET done == [Cur EXCEPT !.cutoff = Del(session_cutoff_data, s),
                                          !.pend = Del(session_pending_intent, s)]
                  IN  IF ~e.db
                      THEN [done EXCEPT !.resp = Err(500)]
                      ELSE [done EXCEPT
                              !.hist = AppendTurn(session_history, s),
                              !.resp = Ok(LookupReply(c1["branch"], c1["category"], c1["gender"],
                                                      collected["_extracted_rank"]),
                                          "eligibility", {DB_SOURCE})]
             ELSE [Cur EXCEPT
                     !.cutoff = Put(session_cutoff_data, s, Put(c1, "_waiting_for", "rank")),
                     !.hist = AppendTurn(session_history, s),
                     !.resp = Ok(Reply("ask_rank_reuse", <<>>), "cutoff", {})]
    ELSE LET base == Put(Put(EmptyDict, "_flow", "eligibility"), "_waiting_for", "branch")
             fresh == IF "rank" \in DOMAIN collected
                      THEN Put(base, "rank", collected["rank"]) ELSE base
             cleared == [Cur EXCEPT !.cutoff = Put(session_cutoff_data, s, fresh)]
         IN  IF ~e.db
             THEN [cleared EXCEPT !.resp = Err(500)]
             ELSE [cleared EXCEPT
                     !.hist = AppendTurn(session_history, s),
                     !.resp = Ok(Reply("ask_branch_fresh", <<BranchCatalog>>), "cutoff", {})]

\* lines 480-532: the answer to the reuse offer
ConfirmReuse(s, m, collected, e) ==
    IF m \in AFFIRMATIVE
    THEN LET reuse == Get(collected, "_reuse_data", EmptyDict)
             c1 == Put(Put(Put(collected, "branch", Get(reuse, "branch", None)),
                           "category", Get(reuse, "category", None)),
                       "gender", Get(reuse, "gender", None))
         IN  IF Get(collected, "_extracted_rank", NoRank) # NoRank
             THEN LET cleared == [Cur EXCEPT !.cutoff = Del(session_cutoff_data, s),
                                             !.pend = Del(session_pending_intent, s)]
                      done == [cleared EXCEPT !.call = CallAt("lookup", s, cleared)]
                  IN  IF ~e.db
                      THEN [done EXCEPT !.resp = Err(500)]
                      ELSE [done EXCEPT
                              !.hist = AppendTurn(session_history, s),
                              !.resp = Ok(LookupReply(c1["branch"], c1["category"], c1["gender"],
                                                      collected["_extracted_rank"]),
                                          "eligibility", {DB_SOURCE})]
             ELSE [Cur EXCEPT
                     !.cutoff = Put(session_cutoff_data, s, Put(c1, "_waiting_for", "rank")),
                     !.hist = AppendTurn(session_history, s),
                     !.resp = Ok(Reply("ask_rank_reuse", <<>>), "cutoff", {})]
    ELSE LET fresh == Put(Put(EmptyDict, "_flow", "eligibility"), "_waiting_for", "branch")
             cleared == [Cur EXCEPT !.cutoff = Put(session_cutoff_data, s, fresh)]
         IN  IF ~e.db
             THEN [cleared EXCEPT !.resp = Err(500)]
             ELSE [cleared EXCEPT
                     !.hist = AppendTurn(session_history, s),
                     !.resp = Ok(Reply("ask_branch_fresh", <<BranchCatalog>>), "cutoff", {})]

\* lines 552-562
GenderAnswer(m) ==
    IF extract_gender(m) # None THEN extract_gender(m)
    ELSE IF m \in {<<"boy">>, <<"boys">>, <<"male">>, <<"m">>} THEN <<"Boys">>
    ELSE IF m \in {<<"girl">>, <<"girls">>, <<"female">>, <<"f">>} THEN <<"Girls">>
    ELSE m

\* RankReprompt with one text for every refused answer
RankReprompt_OneText(m) == "rank_not_understood"

\* lines 590-594: which re-prompt a refused rank answer gets
RankReprompt(m) ==
    LET d == FirstNumber(m) IN
    IF d # <<>> /\ (Len(Significant(d)) > 6 \/ ParseInt(Significant(d)) > RANK_MAX)
    THEN "rank_too_high" ELSE "rank_not_understood"

\* RankEscape that keeps the branch, category and gender it showed the
\* cutoffs of as the last cutoff query
RankEscape_SavesQuery(s, m, collected, e) ==
    LET category == IF Get(collected, "category", None) # None
                    THEN collected["category"] ELSE <<"OC">>
        gender == IF Get(collected, "gender", None) # None
                  THEN collected["gender"] ELSE <<"Boys">>
        cleared == [Cur EXCEPT
                      !.lastc = Put(session_last_cutoff, s,
                                    Put(Put(Put(EmptyDict, "branch",
                                                Get(collected, "branch", <<>>)),
                                            "category", category),
                                        "gender", gender)),
                      !.cutoff = Del(session_cutoff_data, s),
                      !.pend = Del(session_pending_intent, s)]
        done == IF Get(collected, "branch", <<>>) # <<>>
                THEN [cleared EXCEPT !.call = CallAt("lookup", s, cleared)]
                ELSE cleared
    IN  IF ~e.db /\ Get(collected, "branch", <<>>) # <<>>
        THEN [done EXCEPT !.resp = Err(500)]
        ELSE [done EXCEPT
                !.hist = AppendTurn(session_history, s),
                !.resp = Ok(Reply("no_rank_cutoffs",
                                  <<Get(collected, "branch", <<>>), category, gender>>),
                            "cutoff", {DB_SOURCE})]

\* lines 564-584: the user has no rank, show the cutoffs instead
RankEscape(s, m, collected, e) ==
    LET cleared == [Cur EXCEPT !.cutoff = Del(session_cutoff_data, s),
                               !.pend = Del(session_pending_intent, s)]
        done == IF Get(collected, "branch", <<>>) # <<>>
                THEN [cleared EXCEPT !.call = CallAt("lookup", s, cleared)]
                ELSE cleared
        category == IF Get(collected, "category", None) # None
                    THEN collected["category"] ELSE <<"OC">>
        gender == IF Get(collected, "gender", None) # None
                  THEN collected["gender"] ELSE <<"Boys">>
    IN  IF ~e.db /\ Get(collected, "branch", <<>>) # <<>>
        THEN [done EXCEPT !.resp = Err(500)]
        ELSE [done EXCEPT
                !.hist = AppendTurn(session_history, s),
                !.resp = Ok(Reply("no_rank_cutoffs",
                                  <<Get(collected, "branch", <<>>), category, gender>>),
                            "cutoff", {DB_SOURCE})]

\* CutoffComplete that looks the cutoffs up before it clears the flow
CutoffComplete_LookupFirst(s, m, collected, e) ==
    LET has_rank == "rank" \in DOMAIN collected
        saved == IF ~has_rank \/ collected["rank"] = NoRank
                 THEN Put(session_last_cutoff, s,
                          Put(Put(Put(EmptyDict, "branch", collected["branch"]),
                                  "category", collected["category"]),
                              "gender", collected["gender"]))
                 ELSE session_last_cutoff
    IN  IF ~e.db
        THEN [Cur EXCEPT !.resp = Err(500), !.call = CallAt("lookup", s, Cur)]
        ELSE [Cur EXCEPT
                !.lastc = saved,
                !.cutoff = Del(session_cutoff_data, s),
                !.pend = Del(session_pending_intent, s),
                !.call = CallAt("lookup", s, Cur),
                !.hist = AppendTurn(session_history, s),
                !.resp = Ok(LookupReply(collected["branch"], collected["category"],
                                        collected["gender"],
                                        IF has_rank THEN collected["rank"] ELSE NoRank),
                            "cutoff", {DB_SOURCE})]

\* lines 613-643: every field is there
CutoffComplete(s, m, collected, e) ==
    LET has_rank == "rank" \in DOMAIN collected
        saved == IF ~has_rank \/ collected["rank"] = NoRank
                 THEN Put(session_last_cutoff, s,
                          Put(Put(Put(EmptyDict, "branch", collected["branch"]),
                                  "category", collected["category"]),
                              "gender", collected["gender"]))
                 ELSE session_last_cutoff
        cleared == [Cur EXCEPT !.lastc = saved,
                               !.cutoff = Del(session_cutoff_data, s),
                               !.pend = Del(session_pending_intent, s)]
        done == [cleared EXCEPT !.call = CallAt("lookup", s, cleared)]
    IN  IF ~e.db
        THEN [done EXCEPT !.resp = Err(500)]
        ELSE [done EXCEPT
                !.hist = AppendTurn(session_history, s),
                !.resp = Ok(LookupReply(collected["branch"], collected["category"],
                                        collected["gender"],
                                        IF has_rank THEN collected["rank"] ELSE NoRank),
                            "cutoff", {DB_SOURCE})]

\* CutoffNext that asks for the last missing field instead of the first
CutoffNext_LastMissing(s, m, collected, e) ==
    LET qs == Questions(collected)
        H == {j \in 1..Len(qs) : Missing(collected, qs[j])}
        i == IF H = {} THEN 0 ELSE CHOOSE j \in H : \A k \in H : k <= j
        asked == [Cur EXCEPT
                    !.cutoff = Put(session_cutoff_data, s, Put(collected, "_waiting_for", qs[i]))]
    IN  IF i = 0 THEN CutoffComplete(s, m, collected, e)
        ELSE IF qs[i] = "branch" /\ ~e.db
             THEN [asked EXCEPT !.resp = Err(500)]
             ELSE [asked EXCEPT
                     !.hist = AppendTurn(session_history, s),
                     !.resp = Ok(Reply("ask_" \o qs[i],
                                       IF qs[i] = "branch" THEN <<BranchCatalog>> ELSE <<>>),
                                 "cutoff", {})]

\* lines 599-611: the next question, or completion
CutoffNext(s, m, collected, e) ==
    LET qs == Questions(collected)
        i == FirstMissing(qs, collected)
        asked == [Cur EXCEPT
                    !.cutoff = Put(session_cutoff_data, s, Put(collected, "_waiting_for", qs[i]))]
    IN  IF i = 0 THEN CutoffComplete(s, m, collected, e)
        ELSE IF qs[i] = "branch" /\ ~e.db
             THEN [asked EXCEPT !.resp = Err(500)]
             ELSE [asked EXCEPT
                     !.hist = AppendTurn(session_history, s),
                     !.resp = Ok(Reply("ask_" \o qs[i],
                                       IF qs[i] = "branch" THEN <<BranchCatalog>> ELSE <<>>),
                                 "cutoff", {})]

CutoffContinue(s, m, e) ==
    LET collected == session_cutoff_data[s]
        w == WaitingFor(collected)
    IN  CASE w = "_confirm_reuse" -> ConfirmReuse(s, m, collected, e)
          [] w = "branch" ->
               LET vals == extract_branches(m) IN
               IF vals = << <<"ALL">> >>
               THEN IF e.db THEN CutoffNext(s, m, Put(collected, "branch", BranchCatalog), e)
                    ELSE [Cur EXCEPT !.resp = Err(500)]
               ELSE IF vals # <<>> THEN CutoffNext(s, m, Put(collected, "branch", vals), e)
               ELSE CutoffNext(s, m, Put(collected, "branch", <<Upper(m)>>), e)
          [] w = "category" ->
               CutoffNext(s, m, Put(collected, "category",
                                    IF extract_category(m) # None
                                    THEN extract_category(m) ELSE Upper(m)), e)
          [] w = "gender" -> CutoffNext(s, m, Put(collected, "gender", GenderAnswer(m)), e)
          [] w = "rank" ->
               IF AnyInText(NO_RANK_PHRASES, m) THEN RankEscape(s, m, collected, e)
               ELSE IF extract_rank(m) # NoRank
                    THEN CutoffNext(s, m, Put(collected, "rank", extract_rank(m)), e)
                    ELSE [Cur EXCEPT !.hist = AppendTurn(session_history, s),
                                     !.resp = Ok(Reply(RankReprompt(m), <<>>), "cutoff", {})]
          [] OTHER -> CutoffNext(s, m, collected, e)

\* ------------------------------------------------------------------------
\* chat(): no flow active (lines 645-818)
\* ------------------------------------------------------------------------

CONTACT_KEYWORDS ==
    {<<"talk", "to", "admission">>, <<"speak", "with", "admission">>,
     <<"speak", "to", "someone">>, <<"talk", "to", "someone">>,
     <<"contact", "admission">>, <<"call", "me">>, <<"callback">>, <<"call", "back">>,
     <<"reach", "out">>, <<"not", "satisfied">>, <<"dissatisfied">>,
     <<"want", "to", "speak">>, <<"want", "to", "talk">>,
     <<"admission", "department">>, <<"admission", "team">>, <<"admission", "office">>}

is_contact_request(m) == AnyInText(CONTACT_KEYWORDS, m)

\* StartContact that drops the cutoff collections of all sessions
StartContact_DropsCollections(s, m) ==
    [Cur EXCEPT !.contact = Put(session_contact_data, s, Put(EmptyDict, "_waiting_for", "name")),
                !.cutoff = EmptyDict,
                !.hist = AppendTurn(session_history, s),
                !.resp = Ok(Reply("ask_name", <<>>), "contact_request", {})]

\* lines 656-662
StartContact(s, m) ==
    [Cur EXCEPT !.contact = Put(session_contact_data, s, Put(EmptyDict, "_waiting_for", "name")),
                !.hist = AppendTurn(session_history, s),
                !.resp = Ok(Reply("ask_name", <<>>), "contact_request", {})]

\* lines 665-673: the classifier's verdict, overridden by a pending marker
RoutedIntent(s, m) ==
    IF Get(session_pending_intent, s, "None") = "awaiting_cutoff_details"
       /\ classify(m) = "informational"
    THEN "cutoff" ELSE classify(m)

FixedReply(s, text, intent) ==
    [Cur EXCEPT !.hist = AppendTurn(session_history, s),
                !.resp = Ok(Reply(text, <<>>), intent, {})]

\* Prefill that leaves the gender out
Prefill_NoGender(m, intent) ==
    LET flow == IF intent = "eligibility" THEN "eligibility" ELSE "cutoff"
        c0 == Put(EmptyDict, "_flow", flow)
        bs == extract_branches(m)
        c1 == IF bs = <<>> THEN c0
              ELSE Put(c0, "branch", IF bs = << <<"ALL">> >> THEN BranchCatalog ELSE bs)
        c2 == IF extract_category(m) # None THEN Put(c1, "category", extract_category(m)) ELSE c1
    IN  IF extract_rank(m) # NoRank /\ intent = "eligibility"
        THEN Put(c2, "rank", extract_rank(m)) ELSE c2

\* Prefill that keeps a rank whatever the flow
Prefill_RankAlways(m, intent) ==
    LET flow == IF intent = "eligibility" THEN "eligibility" ELSE "cutoff"
        c0 == Put(EmptyDict, "_flow", flow)
        bs == extract_branches(m)
        c1 == IF bs = <<>> THEN c0
              ELSE Put(c0, "branch", IF bs = << <<"ALL">> >> THEN BranchCatalog ELSE bs)
        c2 == IF extract_category(m) # None THEN Put(c1, "category", extract_category(m)) ELSE c1
        c3 == IF extract_gender(m) # None THEN Put(c2, "gender", extract_gender(m)) ELSE c2
    IN  IF extract_rank(m) # NoRank THEN Put(c3, "rank", extract_rank(m)) ELSE c3

\* lines 714-727: the dict pre-filled from the triggering message
Prefill(m, intent) ==
    LET flow == IF intent = "eligibility" THEN "eligibility" ELSE "cutoff"
        c0 == Put(EmptyDict, "_flow", flow)
        bs == extract_branches(m)
        c1 == IF bs = <<>> THEN c0
              ELSE Put(c0, "branch", IF bs = << <<"ALL">> >> THEN BranchCatalog ELSE bs)
        c2 == IF extract_category(m) # None THEN Put(c1, "category", extract_category(m)) ELSE c1
        c3 == IF extract_gender(m) # None THEN Put(c2, "gender", extract_gender(m)) ELSE c2
    IN  IF extract_rank(m) # NoRank /\ intent = "eligibility"
        THEN Put(c3, "rank", extract_rank(m)) ELSE c3

\* lines 740-762: offer the details of the last cutoff query
OfferReuse(s, m, collected, intent) ==
    LET lastq == session_last_cutoff[s]
        c1 == Put(Put(collected, "_waiting_for", "_confirm_reuse"), "_reuse_data", lastq)
        c2 == IF "rank" \in DOMAIN collected
              THEN Put(c1, "_extracted_rank", collected["rank"]) ELSE c1
    IN  [Cur EXCEPT !.cutoff = Put(session_cutoff_data, s, c2),
                    !.hist = AppendTurn(session_history, s),
                    !.resp = Ok(Reply("reuse_offer",
                                      <<lastq["branch"], lastq["category"], lastq["gender"]>>),
                                intent, {})]

\* StartCollection that forgets to record which field it asked for
StartCollection_NoWaiting(s, m, collected, intent, e) ==
    LET qs == Questions(collected)
        H == {i \in 1..Len(qs) : qs[i] \notin DOMAIN collected}
        field == qs[CHOOSE i \in H : \A j \in H : i <= j]
        started == [Cur EXCEPT !.cutoff = Put(session_cutoff_data, s, collected)]
    IN  IF field = "branch" /\ ~e.db
        THEN [started EXCEPT !.resp = Err(500)]
        ELSE [started EXCEPT
                !.hist = AppendTurn(session_history, s),
                !.resp = Ok(IF field = "branch"
                            THEN Reply("intro_ask_branch", <<collected["_flow"], BranchCatalog>>)
                            ELSE Reply("ask_" \o field, <<>>),
                            intent, {})]

\* lines 764-780: the first question of a new collection
StartCollection(s, m, collected, intent, e) ==
    LET qs == Questions(collected)
        H == {i \in 1..Len(qs) : qs[i] \notin DOMAIN collected}
        field == qs[CHOOSE i \in H : \A j \in H : i <= j]
        started == [Cur EXCEPT
                      !.cutoff = Put(session_cutoff_data, s, Put(collected, "_waiting_for", field))]
    IN  IF field = "branch" /\ ~e.db
        THEN [started EXCEPT !.resp = Err(500)]
        ELSE [started EXCEPT
                !.hist = AppendTurn(session_history, s),
                !.resp = Ok(IF field = "branch"
                            THEN Reply("intro_ask_branch", <<collected["_flow"], BranchCatalog>>)
                            ELSE Reply("ask_" \o field, <<>>),
                            intent, {})]

\* AppendAndTrim that keeps one entry less than the newest 2 * MAX_HISTORY
AppendAndTrim_OddCut(h, s) ==
    LET a == AppendTurn(h, s)[s] IN
    Put(h, s, IF Len(a) > MAX_HISTORY * 2
              THEN SubSeq(a, Len(a) - MAX_HISTORY * 2 + 2, Len(a)) ELSE a)

\* lines 805-811: append the turn, then keep the newest 2 * MAX_HISTORY
AppendAndTrim(h, s) ==
    LET a == AppendTurn(h, s)[s] IN
    Put(h, s, IF Len(a) > MAX_HISTORY * 2
              THEN SubSeq(a, Len(a) - MAX_HISTORY * 2 + 1, Len(a)) ELSE a)

\* Generate that returns the default, empty list of sources
Generate_NoSources(s, m, intent, cutoff_info, e) ==
    LET rag == IF intent \in {"informational", "mixed"} /\ e.rag THEN {RAG_SOURCE} ELSE {}
    IN  IF ~e.llm
        THEN [Cur EXCEPT !.resp = Err(500)]
        ELSE [Cur EXCEPT
                !.pend = Del(session_pending_intent, s),
                !.hist = AppendAndTrim(session_history, s),
                !.resp = Ok(Reply("generated", <<cutoff_info, rag # {}>>), intent, {})]

\* lines 782-818: retrieval, the generated answer, history
Generate(s, m, intent, cutoff_info, e) ==
    LET rag == IF intent \in {"informational", "mixed"} /\ e.rag THEN {RAG_SOURCE} ELSE {}
        db == IF cutoff_info # NoReply THEN {DB_SOURCE} ELSE {}
    IN  IF ~e.llm
        THEN [Cur EXCEPT !.resp = Err(500)]
        ELSE [Cur EXCEPT
                !.pend = Del(session_pending_intent, s),
                !.hist = AppendAndTrim(session_history, s),
                !.resp = Ok(Reply("generated", <<cutoff_info, rag # {}>>), intent, db \cup rag)]

\* CutoffPath that offers the last cutoff query only to a message with a rank
CutoffPath_NeedsRank(s, m, intent, e) ==
    LET collected == Prefill(m, intent)
        qs == Questions(collected)
    IN  IF extract_branches(m) = << <<"ALL">> >> /\ ~e.db
        THEN [Cur EXCEPT !.resp = Err(500)]
        ELSE IF \A i \in 1..Len(qs) : qs[i] \in DOMAIN collected
        THEN IF ~e.db
             THEN [Cur EXCEPT !.resp = Err(500)]
             ELSE Generate(s, m, intent,
                           LookupReply(collected["branch"], extract_category(m), extract_gender(m),
                                       IF intent = "eligibility" THEN extract_rank(m) ELSE NoRank),
                           e)
        ELSE IF intent = "eligibility" /\ s \in DOMAIN session_last_cutoff
                /\ "branch" \notin DOMAIN collected /\ "rank" \in DOMAIN collected
             THEN OfferReuse(s, m, collected, intent)
             ELSE StartCollection(s, m, collected, intent, e)

\* lines 707-780: the cutoff / eligibility path of a new conversation
CutoffPath(s, m, intent, e) ==
    LET collected == Prefill(m, intent)
        qs == Questions(collected)
    IN  IF extract_branches(m) = << <<"ALL">> >> /\ ~e.db
        THEN [Cur EXCEPT !.resp = Err(500)]
        ELSE IF \A i \in 1..Len(qs) : qs[i] \in DOMAIN collected
        THEN IF ~e.db
             THEN [Cur EXCEPT !.resp = Err(500), !.call = CallAt("lookup", s, Cur)]
             ELSE [Generate(s, m, intent,
                            LookupReply(collected["branch"], extract_category(m),
                                        extract_gender(m),
                                        IF intent = "eligibility" THEN extract_rank(m)
                                        ELSE NoRank),
                            e)
                   EXCEPT !.call = CallAt("lookup", s, Cur)]
        ELSE IF intent = "eligibility" /\ s \in DOMAIN session_last_cutoff
                /\ "branch" \notin DOMAIN collected
             THEN OfferReuse(s, m, collected, intent)
             ELSE StartCollection(s, m, collected, intent, e)

\* Route that consults the classifier before the contact triggers
Route_ClassifierFirst(s, m, e) ==
    LET intent == RoutedIntent(s, m) IN
    CASE intent = "greeting" -> FixedReply(s, "greeting", intent)
      [] intent = "out_of_scope" -> FixedReply(s, "out_of_scope", intent)
      [] intent \in {"cutoff", "eligibility", "mixed"} -> CutoffPath(s, m, intent, e)
      [] OTHER -> IF is_contact_request(m) /\ s \notin DOMAIN session_contact_data
                  THEN StartContact(s, m)
                  ELSE Generate(s, m, intent, NoReply, e)

Route(s, m, e) ==
    LET intent == RoutedIntent(s, m) IN
    IF is_contact_request(m) /\ s \notin DOMAIN session_contact_data
    THEN StartContact(s, m)
    ELSE CASE intent = "greeting" -> FixedReply(s, "greeting", intent)
           [] intent = "out_of_scope" -> FixedReply(s, "out_of_scope", intent)
           [] intent \in {"cutoff", "eligibility", "mixed"} -> CutoffPath(s, m, intent, e)
           [] OTHER -> Generate(s, m, intent, NoReply, e)

\* ------------------------------------------------------------------------
\* chat(): the handler (lines 292-306), and _check_rate_limit
\* ------------------------------------------------------------------------

\* the purge of line 143 keeping a timestamp that is exactly a window old
Purged_Inclusive(c, now) ==
    LET b == Get(rate_buckets, c, <<>>) IN
    SelectSeq(b, LAMBDA t : now - t <= WINDOW)

\* the bucket after the purge of line 143
Purged(c, now) ==
    LET b == Get(rate_buckets, c, <<>>) IN
    SelectSeq(b, LAMBDA t : now - t < WINDOW)

\* the comparison of line 144 off by one
RateLimited_OffByOne(c, now) == Len(Purged(c, now)) > cfg.rate_limit

\* _check_rate_limit raises HTTPException(429)
RateLimited(c, now) == Len(Purged(c, now)) >= cfg.rate_limit

\* _check_rate_limit that records the timestamp before it compares
CheckRateLimit_AlwaysRecord(c, now) ==
    Put(rate_buckets, c, Append(Purged(c, now), now))

\* _check_rate_limit where a refused request takes the place of the oldest
\* timestamp of the bucket, so that refusals push the lock-out forward
CheckRateLimit_RejectionExtends(c, now) ==
    Put(rate_buckets, c,
        IF RateLimited(c, now) THEN Append(Tail(Purged(c, now)), now)
        ELSE Append(Purged(c, now), now))

\* _rate_buckets after _check_rate_limit(c) at time now
CheckRateLimit(c, now) ==
    Put(rate_buckets, c,
        IF RateLimited(c, now) THEN Purged(c, now) ELSE Append(Purged(c, now), now))

\* Handle that records the turn of a blank message before it refuses it
Handle_BlankRecorded(s, raw, e) ==
    LET m == sanitise_input(raw) IN
    IF m = <<>> THEN [Cur EXCEPT !.hist = AppendTurn(session_history, s), !.resp = Err(400)]
    ELSE IF s \in DOMAIN session_contact_data THEN ContactContinue(s, m, e)
    ELSE IF s \in DOMAIN session_cutoff_data THEN CutoffContinue(s, m, e)
    ELSE Route(s, m, e)

\* Handle that looks for a contact trigger before it looks for a flow
Handle_TriggerFirst(s, raw, e) ==
    LET m == sanitise_input(raw) IN
    IF m = <<>> THEN [Cur EXCEPT !.resp = Err(400)]
    ELSE IF is_contact_request(m) /\ s \notin DOMAIN session_contact_data
         THEN StartContact(s, m)
    ELSE IF s \in DOMAIN session_contact_data THEN ContactContinue(s, m, e)
    ELSE IF s \in DOMAIN session_cutoff_data THEN CutoffContinue(s, m, e)
    ELSE Route(s, m, e)

\* Handle that lets the classifier answer a greeting before it looks for a flow
Handle_GreetingFirst(s, raw, e) ==
    LET m == sanitise_input(raw) IN
    IF m = <<>> THEN [Cur EXCEPT !.resp = Err(400)]
    ELSE IF classify(m) = "greeting" THEN Route(s, m, e)
    ELSE IF s \in DOMAIN session_contact_data THEN ContactContinue(s, m, e)
    ELSE IF s \in DOMAIN session_cutoff_data THEN CutoffContinue(s, m, e)
    ELSE Route(s, m, e)

\* the handler after the rate limit: sanitise, then dispatch on the flow
Handle(s, raw, e) ==
    LET m == sanitise_input(raw) IN
    IF m = <<>> THEN [Cur EXCEPT !.resp = Err(400)]
    ELSE IF s \in DOMAIN session_contact_data THEN ContactContinue(s, m, e)
    ELSE IF s \in DOMAIN session_cutoff_data THEN CutoffContinue(s, m, e)
    ELSE Route(s, m, e)

\* the handler with the rate limit checked after the message is handled
Respond_LateLimit(s, c, raw, now, e) ==
    IF RateLimited(c, now) THEN [Handle(s, raw, e) EXCEPT !.resp = Err(429)]
    ELSE Handle(s, raw, e)

\* lines 292-306 and on: the rate limit comes first, then the message
Respond(s, c, raw, now, e) ==
    IF RateLimited(c, now) THEN [Cur EXCEPT !.resp = Err(429)]
    ELSE Handle(s, raw, e)

\* the fields a flow collects, and those a collection dict holds a value for
FIELDS ==
    {"branch", "category", "gender", "rank",
     "name", "email", "phone", "programme", "query_type", "message"}

Filled(collected) == {f \in FIELDS \cap DOMAIN collected : ~Missing(collected, f)}

\* the collection dict of a session, given the two stores
CollectedIn(contact, cutoff, s) ==
    IF s \in DOMAIN contact THEN contact[s]
    ELSE IF s \in DOMAIN cutoff THEN cutoff[s]
    ELSE EmptyDict

ActiveIn(contact, cutoff, s) == s \in DOMAIN contact \/ s \in DOMAIN cutoff

\* the fields session s has given a value for since its flow began: what it
\* had given before, and what the stores hold after the request
KnownAfter(s, r) ==
    IF ~ActiveIn(r.contact, r.cutoff, s) THEN {}
    ELSE (IF ActiveIn(session_contact_data, session_cutoff_data, s) THEN known[s] ELSE {})
         \cup Filled(CollectedIn(r.contact, r.cutoff, s))

\* the module state once the handler has run with outcome r
Commit(s, c, raw, now, r) ==
    /\ clock' = now
    /\ rate_buckets' = CheckRateLimit(c, now)
    /\ session_history' = r.hist
    /\ session_pending_intent' = r.pend
    /\ session_cutoff_data' = r.cutoff
    /\ session_last_cutoff' = r.lastc
    /\ session_contact_data' = r.contact
    /\ last' = [session |-> s, client |-> c, message |-> raw, resp |-> r.resp,
                call |-> r.call]
    /\ admitted' = IF r.resp.status = 429 THEN admitted
                   ELSE Put(admitted, c, Append(Get(admitted, c, <<>>), now))
    /\ known' = [known EXCEPT ![s] = KnownAfter(s, r)]
    /\ UNCHANGED cfg

\* POST /chat, the request being handled as it is received
Chat(s, c, raw, now, e) ==
    /\ now >= clock
    /\ Len(Purged(c, now)) <= cfg.max_requests
    /\ Len(Get(session_history, s, <<>>)) < cfg.max_history
    /\ \E r \in {Respond(s, c, raw, now, e)} : Commit(s, c, raw, now, r)
    /\ UNCHANGED inflight

\* ------------------------------------------------------------------------
\* Configurations: settings, and the requests the environment may send
\* ------------------------------------------------------------------------

\* settings.RATE_LIMIT_PER_MINUTE as shipped
RATE_LIMIT_DEFAULT == 30
\* a low RATE_LIMIT_PER_MINUTE, so that rejections are reached
RateLimitLow == 2
\* requests of one client explored within one window, less one
MaxRequests == 2
\* the same, for the conversations that take more turns
MaxRequestsLong == 4
\* the same, for a contact request, which takes seven turns to submit
MaxRequestsContact == 6
\* a contact request and one request more
MaxRequestsTwice == 7
\* requests that may be waiting for their handler at one time
MaxInFlight == 2
\* history length up to which further requests of a session are explored
MaxHistory == 16
\* the same, where two sessions are explored together
MaxHistoryShort == 6
\* the same, for the conversations that outgrow the trimming
MaxHistoryLong == 22

AllUp == [db |-> TRUE, llm |-> TRUE, rag |-> TRUE, save |-> "ok"]
DbDown == [AllUp EXCEPT !.db = FALSE]
LlmDown == [AllUp EXCEPT !.llm = FALSE, !.rag = FALSE]
\* save_contact_to_sheets returns (False, None)
SaveFails == [AllUp EXCEPT !.save = "fail"]
\* save_contact_to_sheets is called and an exception leaves it
SaveRaises == [AllUp EXCEPT !.save = "raise"]
\* the import of line 416 raises: save_contact_to_sheets is never called
SaveImportFails == [AllUp EXCEPT !.save = "import_error"]

\* the raw messages; <<>> is a message of blanks only
M_blank == <<>>
M_cse_cutoff == <<"cse", "cutoff">>
M_cutoff == <<"cutoff">>
M_oc == <<"oc">>
M_girls == <<"girls">>
M_boys == <<"boys">>
M_all_in_one == <<"cse", "oc", "girls", "cutoff">>
M_hi == <<"hi">>
M_call_me == <<"call", "me">>
M_fee == <<"fee">>
M_iit == <<"iit", "cutoff">>
M_yes == <<"yes">>
M_no == <<"no">>
M_rank == <<"5000">>
M_rank_high == <<"300000">>
M_elig_partial == <<"can", "i", "get", "cse", "oc">>
M_elig_full == <<"can", "i", "get", "cse", "oc", "boys", "5000">>
M_elig_rank == <<"can", "i", "get", "with", "rank", "5000">>
M_email == <<"ravi@example.com">>
M_phone == <<"9876543210", "call", "me">>
M_digits == <<"12345">>
M_two == <<"2">>
M_skip == <<"skip">>

M_cse == <<"cse">>
M_cse_oc_cutoff == <<"cse", "oc", "cutoff">>
M_elig_oc == <<"can", "i", "get", "oc">>
M_elig_bca == <<"can", "i", "get", "bc-a">>
M_elig_norank == <<"can", "i", "get", "cse", "oc", "boys">>
M_zero == <<"0">>
M_dont_have == <<"don't", "have">>
M_dont_know == <<"don't", "know">>
M_hi_call_me == <<"hi", "call", "me">>
M_iit_call_me == <<"iit", "call", "me">>
M_cutoff_call_me == <<"cse", "cutoff", "call", "me">>
M_elig_call_me == <<"can", "i", "get", "cse", "call", "me">>
M_all == <<"all">>
M_elig_ece_rank == <<"can", "i", "get", "ece", "with", "rank", "5000">>
M_elig_ece_21k == <<"can", "i", "get", "ece", "21k">>
M_ece_rank == <<"ece", "rank", "5000">>
M_cse_cutoff_rank == <<"cse", "cutoff", "5000">>
M_no_5000 == <<"no", "5000">>
M_know_5000 == <<"i", "know", "5000">>
M_dont_have_5000 == <<"don't", "have", "5000">>
M_one == <<"1">>
M_three == <<"3">>
M_rank_max == <<"200000">>
M_rank_over == <<"200001">>
M_minus_five == <<"-5">>

\* routing of a new conversation, and the cutoff flow
CfgRouting ==
    [sessions |-> {"s1"}, clients |-> {"c1"},
     messages |-> {M_blank, M_cse_cutoff, M_cutoff, M_oc, M_girls, M_all_in_one, M_hi,
                   M_call_me, M_fee, M_iit, M_elig_norank, M_elig_full, M_elig_rank},
     envs |-> {AllUp, DbDown, LlmDown}, times |-> {0},
     rate_limit |-> RATE_LIMIT_DEFAULT, max_requests |-> MaxRequests,
     max_history |-> MaxHistory]

\* a cutoff query, then an eligibility question that may reuse its details
CfgReuse ==
    [sessions |-> {"s1"}, clients |-> {"c1"},
     messages |-> {M_cse_oc_cutoff, M_girls, M_elig_oc, M_elig_rank, M_yes, M_no, M_cse,
                   M_rank},
     envs |-> {AllUp, DbDown}, times |-> {0},
     rate_limit |-> RATE_LIMIT_DEFAULT, max_requests |-> MaxRequestsLong,
     max_history |-> MaxHistory]

\* the eligibility flow and its rank question
CfgEligibility ==
    [sessions |-> {"s1"}, clients |-> {"c1"},
     messages |-> {M_elig_partial, M_elig_norank, M_boys, M_rank, M_rank_high, M_digits,
                   M_no, M_hi, M_call_me, M_zero, M_dont_have, M_dont_know},
     envs |-> {AllUp, DbDown}, times |-> {0},
     rate_limit |-> RATE_LIMIT_DEFAULT, max_requests |-> MaxRequests,
     max_history |-> MaxHistory]

\* the answers to the rank question: the ends of the range, the numbers
\* next to them, and a number with a sign
CfgRanks ==
    [sessions |-> {"s1"}, clients |-> {"c1"},
     messages |-> {M_elig_norank, M_zero, M_one, M_three, M_rank_max, M_rank_over,
                   M_minus_five},
     envs |-> {AllUp, DbDown}, times |-> {0},
     rate_limit |-> RATE_LIMIT_DEFAULT, max_requests |-> MaxRequests,
     max_history |-> MaxHistory]

\* a cutoff query, then an eligibility question that names another
\* category and may reuse the query's details
CfgPrefill ==
    [sessions |-> {"s1"}, clients |-> {"c1"},
     messages |-> {M_cse_oc_cutoff, M_girls, M_elig_bca, M_yes, M_no, M_rank},
     envs |-> {AllUp, DbDown}, times |-> {0},
     rate_limit |-> RATE_LIMIT_DEFAULT, max_requests |-> MaxRequestsLong,
     max_history |-> MaxHistory]

\* a contact request, from its trigger on
CfgContact ==
    [sessions |-> {"s1"}, clients |-> {"c1"},
     messages |-> {M_call_me, M_hi, M_two, M_digits, M_email, M_phone, M_skip},
     envs |-> {AllUp, SaveFails, SaveRaises, SaveImportFails}, times |-> {0},
     rate_limit |-> RATE_LIMIT_DEFAULT, max_requests |-> MaxRequestsContact,
     max_history |-> MaxHistory]

\* contact triggers in messages that the classifier would send elsewhere
CfgTriggers ==
    [sessions |-> {"s1"}, clients |-> {"c1"},
     messages |-> {M_call_me, M_hi_call_me, M_iit_call_me, M_cutoff_call_me, M_elig_call_me,
                   M_hi, M_cse_cutoff, M_fee},
     envs |-> {AllUp, DbDown, LlmDown}, times |-> {0},
     rate_limit |-> RATE_LIMIT_DEFAULT, max_requests |-> MaxRequests,
     max_history |-> MaxHistory]

\* blank messages in and between flows, after a cutoff query has completed
CfgBlank ==
    [sessions |-> {"s1"}, clients |-> {"c1"},
     messages |-> {M_blank, M_cse_oc_cutoff, M_girls, M_call_me, M_hi},
     envs |-> {AllUp, DbDown}, times |-> {0},
     rate_limit |-> RATE_LIMIT_DEFAULT, max_requests |-> MaxRequestsLong,
     max_history |-> MaxHistory]

\* a cutoff query answered field by field, "all" standing for every branch
CfgBranches ==
    [sessions |-> {"s1"}, clients |-> {"c1"},
     messages |-> {M_cutoff, M_all, M_cse, M_oc, M_girls, M_hi},
     envs |-> {AllUp, DbDown}, times |-> {0},
     rate_limit |-> RATE_LIMIT_DEFAULT, max_requests |-> MaxRequestsLong,
     max_history |-> MaxHistory]

\* answers to one session that are received before the earlier ones are
\* handled
CfgConcurrent ==
    [sessions |-> {"s1"}, clients |-> {"c1"},
     messages |-> {M_cutoff, M_cse, M_oc, M_girls},
     envs |-> {AllUp}, times |-> {0},
     rate_limit |-> RATE_LIMIT_DEFAULT, max_requests |-> MaxRequests,
     max_history |-> MaxHistory]

\* two sessions of two clients, each with its own flows
CfgTwo ==
    [sessions |-> {"s1", "s2"}, clients |-> {"c1", "c2"},
     messages |-> {M_cse_oc_cutoff, M_girls, M_call_me},
     envs |-> {AllUp}, times |-> {0},
     rate_limit |-> RATE_LIMIT_DEFAULT, max_requests |-> MaxRequests,
     max_history |-> MaxHistoryShort]

\* questions about the user's chances that state a rank, and other queries
CfgClassify ==
    [sessions |-> {"s1"}, clients |-> {"c1"},
     messages |-> {M_elig_ece_rank, M_elig_ece_21k, M_elig_rank, M_elig_full, M_ece_rank,
                   M_cse_oc_cutoff, M_girls, M_oc, M_hi},
     envs |-> {AllUp, DbDown}, times |-> {0},
     rate_limit |-> RATE_LIMIT_DEFAULT, max_requests |-> MaxRequests,
     max_history |-> MaxHistory]

\* two cutoff queries in a row, with greetings and contact requests between
CfgSnapshot ==
    [sessions |-> {"s1"}, clients |-> {"c1"},
     messages |-> {M_cse_oc_cutoff, M_girls, M_boys, M_hi, M_call_me},
     envs |-> {AllUp, DbDown}, times |-> {0},
     rate_limit |-> RATE_LIMIT_DEFAULT, max_requests |-> MaxRequestsLong,
     max_history |-> MaxHistory]

\* a cutoff query that mentions a rank, and answers of every kind
CfgFields ==
    [sessions |-> {"s1"}, clients |-> {"c1"},
     messages |-> {M_cse_cutoff_rank, M_oc, M_girls, M_rank, M_call_me, M_hi},
     envs |-> {AllUp}, times |-> {0},
     rate_limit |-> RATE_LIMIT_DEFAULT, max_requests |-> MaxRequestsLong,
     max_history |-> MaxHistory]

\* a contact request met with greetings, cutoff questions and blanks
CfgAbandon ==
    [sessions |-> {"s1"}, clients |-> {"c1"},
     messages |-> {M_call_me, M_hi, M_cse_oc_cutoff, M_elig_rank, M_email, M_blank},
     envs |-> {AllUp}, times |-> {0},
     rate_limit |-> RATE_LIMIT_DEFAULT, max_requests |-> MaxRequestsLong,
     max_history |-> MaxHistory]

\* answers to the rank question that give the rank up and name a number
CfgEscape ==
    [sessions |-> {"s1"}, clients |-> {"c1"},
     messages |-> {M_elig_norank, M_no_5000, M_know_5000, M_dont_have_5000, M_rank},
     envs |-> {AllUp, DbDown}, times |-> {0},
     rate_limit |-> RATE_LIMIT_DEFAULT, max_requests |-> MaxRequests,
     max_history |-> MaxHistory]

\* a contact request whose last answer is sent twice; "9876543210 call me"
\* holds the trigger and serves as name, phone number and menu choice
CfgSubmitTwice ==
    [sessions |-> {"s1"}, clients |-> {"c1"},
     messages |-> {M_phone, M_email},
     envs |-> {AllUp}, times |-> {0},
     rate_limit |-> RATE_LIMIT_DEFAULT, max_requests |-> MaxRequestsTwice,
     max_history |-> MaxHistory]

\* two clients and two sessions against a low rate limit, over two minutes
CfgRate ==
    [sessions |-> {"s1", "s2"}, clients |-> {"c1", "c2"},
     messages |-> {M_cse_cutoff},
     envs |-> {AllUp}, times |-> {0, 1, 60, 61},
     rate_limit |-> RateLimitLow, max_requests |-> MaxRequests,
     max_history |-> MaxHistoryShort]

\* two clients that keep sending against a low rate limit while time moves
\* on past two windows; the messages are blank, which the rate limiter
\* counts like any other and which leave no history
CfgRateLive ==
    [sessions |-> {"s1"}, clients |-> {"c1", "c2"},
     messages |-> {M_blank},
     envs |-> {AllUp}, times |-> {1, 60, 61, 120},
     rate_limit |-> RateLimitLow, max_requests |-> MaxRequests,
     max_history |-> MaxHistoryLong]

\* a long conversation of greetings and generated answers
CfgHistory ==
    [sessions |-> {"s1"}, clients |-> {"c1"},
     messages |-> {M_hi, M_fee, M_cse_cutoff},
     envs |-> {AllUp}, times |-> {0},
     rate_limit |-> RATE_LIMIT_DEFAULT, max_requests |-> MaxHistoryLong,
     max_history |-> MaxHistoryLong]

Init(c) ==
    /\ rate_buckets = EmptyDict
    /\ session_history = EmptyDict
    /\ session_pending_intent = EmptyDict
    /\ session_cutoff_data = EmptyDict
    /\ session_last_cutoff = EmptyDict
    /\ session_contact_data = EmptyDict
    /\ clock = 0
    /\ cfg = c
    /\ last = [session |-> "", client |-> "", message |-> <<>>, resp |-> Err(0),
               call |-> NoCall]
    /\ admitted = EmptyDict
    /\ known = [s \in c.sessions |-> {}]
    /\ inflight = {}

\* the server receives a request: its handler, a coroutine of the event
\* loop, is scheduled; `seen` is the collection of the session as the
\* sender could know it
Arrive(s, c, raw, e) ==
    /\ Cardinality(inflight) < MaxInFlight
    /\ inflight' = inflight \cup
          {[id |-> CHOOSE n \in 1..MaxInFlight : \A q \in inflight : q.id # n,
            session |-> s, client |-> c, message |-> raw, env |-> e,
            seen |-> CollectedIn(session_contact_data, session_cutoff_data, s)]}
    /\ UNCHANGED <<rate_buckets, session_history, session_pending_intent,
                   session_cutoff_data, session_last_cutoff, session_contact_data,
                   clock, cfg, last, admitted, known>>

\* a handler that works on the copy of the collection taken when its
\* request was received, and writes that copy back with its own field
Handler_StaleCopy(q) ==
    LET r == Respond(q.session, q.client, q.message, clock, q.env)
        s == q.session
        w == WaitingFor(CollectedIn(session_contact_data, session_cutoff_data, s))
    IN  IF s \in DOMAIN session_cutoff_data /\ s \in DOMAIN r.cutoff
        THEN [r EXCEPT !.cutoff = Put(r.cutoff, s,
                  [f \in DOMAIN r.cutoff[s] \cap (DOMAIN q.seen \cup {w, "_waiting_for"})
                      |-> r.cutoff[s][f]])]
        ELSE r

\* a handler that gives way to the event loop at the await of the save: a
\* request received while the message was awaited resumes once another
\* has submitted and removed the collection, submits again, and fails at
\* its own removal
Handler_YieldsAtSave(q) ==
    IF WaitingFor(q.seen) = "message" /\ q.session \notin DOMAIN session_contact_data
    THEN [Cur EXCEPT !.resp = Err(500), !.call = [NoCall EXCEPT !.to = "save"]]
    ELSE Respond(q.session, q.client, q.message, clock, q.env)

\* async def chat: the body holds one await, of save_contact_to_sheets,
\* which itself awaits nothing, so the coroutine never yields to the event
\* loop: it reads and writes the module state as it is when it runs
Handler(q) == Respond(q.session, q.client, q.message, clock, q.env)

\* the event loop runs the handler of a received request to its end
Run ==
    \E q \in inflight :
        /\ Len(Purged(q.client, clock)) <= cfg.max_requests
        /\ Len(Get(session_history, q.session, <<>>)) < cfg.max_history
        /\ \E r \in {Handler(q)} : Commit(q.session, q.client, q.message, clock, r)
        /\ inflight' = inflight \ {q}

Next ==
    \E s \in cfg.sessions, c \in cfg.clients, raw \in cfg.messages,
       now \in cfg.times, e \in cfg.envs :
        Chat(s, c, raw, now, e)

\* a request of client c
Calls(c) ==
    \E s \in cfg.sessions, raw \in cfg.messages, now \in cfg.times, e \in cfg.envs :
        Chat(s, c, raw, now, e)

\* a request received later than every request before it: time.time() has
\* moved on
Advance ==
    \E s \in cfg.sessions, c \in cfg.clients, raw \in cfg.messages,
       now \in cfg.times, e \in cfg.envs :
        now > clock /\ Chat(s, c, raw, now, e)

\* the latest time the environment of configuration c offers
Horizon(c) == CHOOSE t \in c.times : \A u \in c.times : u <= t

\* new conversations
Spec == Init(CfgRouting) /\ [][Next]_vars

\* the flows: cutoff, eligibility with and without reuse, contact
SpecFlows ==
    (\E c \in {CfgRouting, CfgReuse, CfgEligibility, CfgContact} : Init(c)) /\ [][Next]_vars

\* the flows, with the answers to the rank question and an offer that
\* meets a pre-filled category
SpecAnswers ==
    (\E c \in {CfgRouting, CfgReuse, CfgEligibility, CfgContact, CfgRanks, CfgPrefill} :
        Init(c)) /\ [][Next]_vars

\* the rate limiter
SpecRate == Init(CfgRate) /\ [][Next]_vars

\* the rate limiter while the wall clock moves on and every client keeps
\* sending requests
SpecRateLive ==
    /\ Init(CfgRateLive)
    /\ [][Next]_vars
    /\ WF_vars(Advance)
    /\ \A c \in CfgRateLive.clients : WF_vars(Calls(c))

\* long conversations
SpecHistory == Init(CfgHistory) /\ [][Next]_vars

\* the eligibility flow and its rank question
SpecEligibility == Init(CfgEligibility) /\ [][Next]_vars

\* the contact flow
SpecContact == Init(CfgContact) /\ [][Next]_vars

\* contact triggers against the classifier
SpecTriggers == Init(CfgTriggers) /\ [][Next]_vars

\* blank messages
SpecBlank == Init(CfgBlank) /\ [][Next]_vars

\* two sessions side by side
SpecTwo == Init(CfgTwo) /\ [][Next]_vars

\* the branch question
SpecBranches == Init(CfgBranches) /\ [][Next]_vars

\* requests are received in any number up to MaxInFlight before the event
\* loop runs their handlers, in any order
NextConcurrent ==
    \/ \E s \in cfg.sessions, c \in cfg.clients, raw \in cfg.messages, e \in cfg.envs :
          Arrive(s, c, raw, e)
    \/ Run

\* flows before and after a completed cutoff query
SpecSnapshot ==
    (\E c \in {CfgReuse, CfgEligibility, CfgContact, CfgSnapshot} : Init(c)) /\ [][Next]_vars

\* every flow, and cutoff queries that mention a rank
SpecFields ==
    (\E c \in {CfgReuse, CfgEligibility, CfgContact, CfgFields} : Init(c)) /\ [][Next]_vars

\* contact requests, answered as asked and otherwise
SpecAbandon == (\E c \in {CfgContact, CfgAbandon} : Init(c)) /\ [][Next]_vars

\* eligibility flows and the ways to leave the rank question
SpecEscape == (\E c \in {CfgEligibility, CfgEscape} : Init(c)) /\ [][Next]_vars

\* eligibility questions with a rank
SpecClassify == Init(CfgClassify) /\ [][Next]_vars

\* answers received together
SpecConcurrent == Init(CfgConcurrent) /\ [][NextConcurrent]_vars

\* last answers of a contact request received together
SpecSubmitTwice == Init(CfgSubmitTwice) /\ [][NextConcurrent]_vars

\* ------------------------------------------------------------------------
\* Properties
\* ------------------------------------------------------------------------

\* the flow of a session as the stores hold it
Active(s) == ActiveIn(session_contact_data, session_cutoff_data, s)
Collected(s) == CollectedIn(session_contact_data, session_cutoff_data, s)
Asked(s) == WaitingFor(Collected(s))

\* every field d1 holds a value for, d2 holds with the same value
SameFields(d1, d2) == \A f \in Filled(d1) : f \in DOMAIN d2 /\ d2[f] = d1[f]

\* the latest request was for session s and got past the rate limit with a
\* message that is not blank
Handled(s) ==
    /\ last.session = s
    /\ last.resp.status # 429
    /\ sanitise_input(last.message) # <<>>

\* C1: after any sequence of requests, every session has a `_waiting_for`
\* value recorded exactly when it is in the contact store or in the
\* cutoff / eligibility store
C1_WaitingIffActive ==
    \A s \in cfg.sessions : Asked(s) # "None" <=> Active(s)

\* a request failed on the branch list while the session stays in its flow
C1_Witness ==
    \E s \in cfg.sessions :
        /\ s \in DOMAIN session_cutoff_data
        /\ Asked(s) = "branch"
        /\ last.session = s /\ last.resp.status = 500

\* C2: a session is never in the contact store and in the cutoff /
\* eligibility store at once, and a request to a session that is in a flow
\* neither puts it into the other store nor changes a field the flow has
\* collected (the answer to a reuse offer, which copies or clears, aside)
C2_OneActiveFlow ==
    [][\A s \in cfg.sessions :
          /\ ~(s \in DOMAIN session_contact_data' /\ s \in DOMAIN session_cutoff_data')
          /\ s \in DOMAIN session_cutoff_data =>
                /\ s \notin DOMAIN session_contact_data'
                /\ (s \in DOMAIN session_cutoff_data' /\ Asked(s) # "_confirm_reuse") =>
                      /\ SameFields(session_cutoff_data[s], session_cutoff_data'[s])
                      /\ session_cutoff_data'[s]["_flow"] = session_cutoff_data[s]["_flow"]
          /\ s \in DOMAIN session_contact_data =>
                /\ s \notin DOMAIN session_cutoff_data'
                /\ s \in DOMAIN session_contact_data' =>
                      SameFields(session_contact_data[s], session_contact_data'[s])
      ]_vars

\* a contact trigger arrived in the middle of a cutoff collection, which
\* took it as the category and went on to the gender
C2_Witness ==
    \E s \in cfg.sessions :
        /\ s \in DOMAIN session_cutoff_data /\ s \notin DOMAIN session_contact_data
        /\ last.session = s /\ last.message = M_call_me
        /\ Filled(session_cutoff_data[s]) = {"branch", "category"}
        /\ Asked(s) = "gender"

\* the declared field order of the flow session s is in; the contact flow
\* asks for the optional message last
Order(s) ==
    IF s \in DOMAIN session_contact_data THEN CONTACT_QUESTIONS \o <<"message">>
    ELSE Questions(Collected(s))

\* the field session s is asked for is the first of the declared order
\* that is not in the set `have`
AsksFirstOutside(s, have) ==
    Asked(s) \in FIELDS =>
        \E i \in 1..Len(Order(s)) :
            /\ Order(s)[i] = Asked(s)
            /\ Asked(s) \notin have
            /\ \A j \in 1..(i - 1) : Order(s)[j] \in have

\* the fields the extractors find in a message that starts a collection
Extractable(m) ==
    {f \in {"branch", "category", "gender"} :
        \/ f = "branch" /\ extract_branches(m) # <<>>
        \/ f = "category" /\ extract_category(m) # None
        \/ f = "gender" /\ extract_gender(m) # None}

\* C3 as stated: in every flow the field asked for is the first of the
\* declared order that the session has not yet given a value for, in the
\* triggering message or in an answer; so no field it gave is asked again
C3_PromptOrder ==
    [][\A s \in cfg.sessions :
          (Handled(s)' /\ last'.resp.status = 200) => AsksFirstOutside(s, known[s])'
      ]_vars

\* the fields of a collection dict that hold a value, with their values
Values(collected) == [f \in Filled(collected) |-> collected[f]]

\* C3, amended: the field asked for is the first of the declared order
\* that the collection dict holds no value for; a message that starts a
\* collection fills the dict with the fields it names; and the dict keeps
\* every value from one request to the next, but for the answer to a reuse
\* offer: an acknowledgement sets the branch, category and gender to those
\* of the saved query, replacing a category or gender that the triggering
\* message had filled, and any other answer empties the dict and asks for
\* the branch
C3_PromptOrderStored ==
    [][\A s \in cfg.sessions :
          (Handled(s)' /\ last'.resp.status = 200) =>
              /\ AsksFirstOutside(s, Filled(Collected(s)))'
              /\ (~Active(s) /\ s \in DOMAIN session_cutoff_data') =>
                    Extractable(sanitise_input(last'.message))
                        \subseteq Filled(session_cutoff_data'[s])
              /\ (Active(s) /\ Active(s)') =>
                    IF Asked(s) # "_confirm_reuse"
                    THEN \A f \in Filled(Collected(s)) :
                            /\ f \in Filled(Collected(s))'
                            /\ Values(Collected(s))'[f] = Values(Collected(s))[f]
                    ELSE IF sanitise_input(last'.message) \in AFFIRMATIVE
                    THEN /\ \A f \in {"branch", "category", "gender"} :
                               Collected(s)'[f] = Collected(s)["_reuse_data"][f]
                         /\ \A f \in Filled(Collected(s)) \ {"branch", "category", "gender"} :
                               /\ f \in Filled(Collected(s))'
                               /\ Values(Collected(s))'[f] = Values(Collected(s))[f]
                    ELSE Filled(Collected(s))' = {} /\ Asked(s)' = "branch"
      ]_vars

\* "cse cutoff" names the branch only and is answered with the category
\* question
C3_BranchPrefilled ==
    \E s \in cfg.sessions :
        /\ last.session = s /\ last.message = M_cse_cutoff
        /\ last.resp.reply.text = "ask_category"
        /\ Filled(Collected(s)) = {"branch"}
        /\ Asked(s) = "category"

\* after a cutoff query for OC, "can i get bc-a" filled another category
\* and was answered with the offer; the offer accepted, the category is
\* the OC of the saved query, and the rank, the one field without a value,
\* is asked for
C3_Witness ==
    \E s \in cfg.sessions :
        /\ last.session = s /\ last.message = M_yes
        /\ M_elig_bca \in cfg.messages
        /\ extract_category(M_elig_bca) = <<"BC-A">>
        /\ s \in DOMAIN session_cutoff_data
        /\ Asked(s) = "rank"
        /\ Filled(Collected(s)) = {"branch", "category", "gender"}
        /\ "_reuse_data" \in DOMAIN Collected(s)
        /\ Collected(s)["category"] = Collected(s)["_reuse_data"]["category"]
        /\ Collected(s)["category"] = <<"OC">>

\* the longest history the handler's own trimming leaves (lines 810-811)
HistoryCap == MAX_HISTORY * 2

\* C4: the history of a session never holds more entries than the cap,
\* whatever the turns were
C4_HistoryCapped ==
    \A s \in DOMAIN session_history : Len(session_history[s]) <= HistoryCap

\* a generated answer has trimmed a history that had outgrown the cap
C4_Witness ==
    \E s \in DOMAIN session_history :
        /\ last.session = s /\ last.resp.reply.text = "generated"
        /\ Len(session_history[s]) = HistoryCap
        /\ Len(rate_buckets[last.client]) > MAX_HISTORY + 1

\* how many of the times ts lie within the window that ends at now
InWindow(ts, now) == Cardinality({i \in 1..Len(ts) : now - ts[i] < WINDOW})

\* C5: a request of a client is let through only if fewer than the ceiling
\* of its requests let through so far lie within the 60 seconds before it;
\* so a bucket never holds more timestamps than the ceiling, and no window
\* of 60 seconds that starts with a request let through holds more than
\* the ceiling of them
C5_AdmitUnderCeiling ==
    [][\A c \in cfg.clients :
          /\ (last'.client = c /\ last'.resp.status # 429) =>
                InWindow(Get(admitted, c, <<>>), clock') < cfg.rate_limit
          /\ Len(Get(rate_buckets', c, <<>>)) <= cfg.rate_limit
          /\ \A i \in 1..Len(Get(admitted', c, <<>>)) :
                Cardinality({j \in i..Len(admitted'[c]) :
                                admitted'[c][j] - admitted'[c][i] < WINDOW}) <= cfg.rate_limit
      ]_vars

\* a client at the ceiling is refused, after it was let through more often
\* than the ceiling over the two minutes
C5_Witness ==
    \E c \in cfg.clients :
        /\ last.client = c /\ last.resp.status = 429
        /\ Len(Get(admitted, c, <<>>)) > cfg.rate_limit
        /\ Len(rate_buckets[c]) = cfg.rate_limit

\* C6: a refused request leaves no timestamp: every bucket is what the
\* purge leaves of it, nothing is added, and what a later check of any
\* client decides is what it would have decided without the refused request
C6_RejectionNotCounted ==
    [][last'.resp.status = 429 =>
          \A c \in cfg.clients :
              /\ Get(rate_buckets', c, <<>>) =
                    (IF c = last'.client
                     THEN SelectSeq(Get(rate_buckets, c, <<>>),
                                    LAMBDA t : clock' - t < WINDOW)
                     ELSE Get(rate_buckets, c, <<>>))
              /\ \A t \in cfg.times : t >= clock' => (RateLimited(c, t)' <=> RateLimited(c, t))
      ]_vars

\* a request refused at time 60, when the timestamp of time 0 has left the
\* bucket and those of times 1 and 60 fill it
C6_Witness ==
    /\ last.resp.status = 429 /\ clock = 60
    /\ rate_buckets[last.client] = <<1, 60>>

\* C7: a request the rate limiter refuses gets status 429 and leaves the
\* history, the flow state with its collected fields, the pending marker
\* and the last cutoff query of every session as they were; no session is
\* created
C7_RejectedBeforeSession ==
    [][last'.resp.status = 429 =>
          /\ last'.resp.reply = NoReply
          /\ UNCHANGED <<session_history, session_pending_intent, session_cutoff_data,
                         session_last_cutoff, session_contact_data>>
      ]_vars

\* a refused request named a session that no request had named before, and
\* the other session is in the middle of a flow
C7_Witness ==
    /\ last.resp.status = 429
    /\ last.session \notin DOMAIN session_history
    /\ DOMAIN session_cutoff_data # {}

\* the replies of the contact flow once it has begun, and those of the
\* cutoff / eligibility flow
CONTACT_REPLIES ==
    {"name_too_short", "email_invalid", "phone_invalid", "programme_invalid",
     "query_type_invalid", "ask_email", "ask_phone", "ask_programme", "ask_query_type",
     "ask_message", "contact_submitted", "contact_failed", "contact_error"}

CUTOFF_REPLIES ==
    {"ask_branch", "ask_category", "ask_gender", "ask_rank", "ask_rank_reuse",
     "ask_branch_fresh", "rank_too_high", "rank_not_understood", "no_rank_cutoffs", "lookup"}

\* C8: a message that is not blank, sent to a session that is in a flow, is
\* answered by that flow: the reply is one of the flow's own, with the
\* flow's intent and not the classifier's, whatever the message says, and
\* the session is not put into the other flow
C8_FlowContinuation ==
    [][\A s \in cfg.sessions :
          (Handled(s)' /\ Active(s)) =>
              /\ s \in DOMAIN session_contact_data =>
                    /\ s \notin DOMAIN session_cutoff_data'
                    /\ last'.resp.status = 200
                    /\ last'.resp.intent = "contact_request"
                    /\ last'.resp.reply.text \in CONTACT_REPLIES
              /\ s \in DOMAIN session_cutoff_data =>
                    /\ s \notin DOMAIN session_contact_data'
                    /\ last'.resp.status \in {200, 500}
                    /\ last'.resp.status = 200 =>
                          /\ last'.resp.intent \in {"cutoff", "eligibility"}
                          /\ last'.resp.reply.text \in CUTOFF_REPLIES
      ]_vars

\* a greeting in the middle of a contact request is taken as the e-mail
\* address and refused
C8_Witness ==
    \E s \in cfg.sessions :
        /\ s \in DOMAIN session_contact_data
        /\ last.session = s /\ last.message = M_hi
        /\ last.resp.reply.text = "email_invalid"
        /\ Asked(s) = "email"

\* the re-prompts of each validated field
REPROMPTS ==
    [rank |-> {"rank_too_high", "rank_not_understood"},
     name |-> {"name_too_short"},
     email |-> {"email_invalid"},
     phone |-> {"phone_invalid"},
     programme |-> {"programme_invalid"},
     query_type |-> {"query_type_invalid"}]

\* message m is refused as the value of field w: no rank in range (and no
\* phrase that gives the rank up), a name of one character, no e-mail
\* address, no ten-digit number, no programme, no query type
Refused(w, m) ==
    CASE w = "rank" -> extract_rank(m) = NoRank /\ ~AnyInText(NO_RANK_PHRASES, m)
      [] w = "name" -> CharLen(m) < 2
      [] w = "email" -> ~IsEmail(m)
      [] w = "phone" -> FirstPhone(m) = None
      [] w = "programme" -> ParseProgramme(m) = None
      [] w = "query_type" -> ParseQueryType(m) = None
      [] OTHER -> FALSE

\* C9: when the answer to the awaited field is refused, the request
\* succeeds with a re-prompt for that field, both stores are as they were
\* (so the collected fields and the awaited field are unchanged), and the
\* session's history grows by the user message and the re-prompt
C9_RepromptSameField ==
    [][\A s \in cfg.sessions :
          (Handled(s)' /\ Active(s)
                /\ Refused(Asked(s), sanitise_input(last'.message))) =>
              /\ last'.resp.status = 200
              /\ last'.resp.reply.text \in REPROMPTS[Asked(s)]
              /\ session_contact_data' = session_contact_data
              /\ session_cutoff_data' = session_cutoff_data
              /\ session_history'[s] =
                    session_history[s] \o <<[role |-> "user"], [role |-> "assistant"]>>
      ]_vars

\* "12345" is refused as the phone number: the phone is still to be given
C9_Witness ==
    \E s \in cfg.sessions :
        /\ s \in DOMAIN session_contact_data
        /\ last.session = s /\ last.message = M_digits
        /\ last.resp.reply.text = "phone_invalid"
        /\ Asked(s) = "phone" /\ "phone" \notin DOMAIN session_contact_data[s]

\* message m, sent to session s, starts a cutoff or eligibility flow
StartsLookup(s, m) ==
    /\ ~Active(s)
    /\ ~is_contact_request(m)
    /\ RoutedIntent(s, m) \in {"cutoff", "eligibility", "mixed"}

\* the request was answered in one turn: no question, no flow left behind,
\* and where it succeeded, an answer generated from the looked-up cutoffs
ResolvedAtOnce(s) ==
    /\ ~Active(s)
    /\ last.resp.status \in {200, 500}
    /\ last.resp.status = 200 =>
          /\ last.resp.reply.text = "generated"
          /\ last.resp.reply.args[1].text = "lookup"
          /\ DB_SOURCE \in last.resp.sources

\* C10 as stated: a message that starts a cutoff or eligibility flow and
\* names branch, category and gender is resolved in that turn, with no
\* question asked and no flow left active
C10_CompleteAtStart ==
    [][\A s \in cfg.sessions :
          LET m == sanitise_input(last'.message) IN
          (Handled(s)' /\ StartsLookup(s, m)
                /\ Extractable(m) = {"branch", "category", "gender"}) =>
              ResolvedAtOnce(s)'
      ]_vars

\* C10, amended: the same of a message that names every field of the
\* flow it starts: branch, category and gender for a cutoff question, and
\* the rank as well for an eligibility question
C10_CompleteAtStartAllFields ==
    [][\A s \in cfg.sessions :
          LET m == sanitise_input(last'.message) IN
          (Handled(s)' /\ StartsLookup(s, m)
                /\ Extractable(m) = {"branch", "category", "gender"}
                /\ (RoutedIntent(s, m) = "eligibility" => extract_rank(m) # NoRank)) =>
              ResolvedAtOnce(s)'
      ]_vars

\* an eligibility question with branch, category, gender and rank is
\* answered at once
C10_Witness ==
    \E s \in cfg.sessions :
        /\ last.session = s /\ last.message = M_elig_full
        /\ last.resp.status = 200 /\ last.resp.intent = "eligibility"
        /\ last.resp.reply.text = "generated"
        /\ last.resp.reply.args[1].args = << << <<"CSE">> >>, <<"OC">>, <<"Boys">>, 5000 >>
        /\ ~Active(s)

\* the fields of a declared order, as a set
AllOf(order) == {order[i] : i \in 1..Len(order)}

\* message m is taken as the value of field w
Accepted(w, m) ==
    /\ w \in FIELDS
    /\ ~Refused(w, m)
    /\ ~(w = "rank" /\ AnyInText(NO_RANK_PHRASES, m))

\* with the answer m to the awaited field stored, session s holds every
\* field of its flow's declared order ("all" names the branches only once
\* the branch list has been read)
FilledBy(s, m, status) ==
    /\ Accepted(Asked(s), m)
    /\ AllOf(Order(s)) \subseteq Filled(Collected(s)) \cup {Asked(s)}
    /\ ~(Asked(s) = "branch" /\ extract_branches(m) = << <<"ALL">> >> /\ status = 500)

\* the user gives the rank up
EscapesRank(s, m) ==
    /\ s \in DOMAIN session_cutoff_data
    /\ Asked(s) = "rank"
    /\ AnyInText(NO_RANK_PHRASES, m)

\* the user accepts a reuse offer made for a message that carried a rank
ReusesWithRank(s, m) ==
    /\ s \in DOMAIN session_cutoff_data
    /\ Asked(s) = "_confirm_reuse"
    /\ m \in AFFIRMATIVE
    /\ Get(Collected(s), "_extracted_rank", NoRank) # NoRank

\* the replies that resolve a contact request, whether the save succeeded,
\* reported a failure or raised
CONTACT_RESOLUTIONS == {"contact_submitted", "contact_failed", "contact_error"}

\* C11: a request to a session in a flow ends the flow in that turn if the
\* answer fills the last missing field of the declared order (the optional
\* message being the last of the contact flow), gives the rank up, or
\* accepts a reuse offer that carries a rank; and in no other case.  The
\* session is then in neither store and awaits nothing; a contact request
\* is answered with the outcome of the submission, whether the save
\* succeeded or not, and a cutoff / eligibility flow with the looked-up
\* cutoffs wherever the lookup answers.  A request to a session in no flow
\* is routed afresh: its intent is that of the contact trigger or of the
\* classifier
C11_CompleteWhenFilled ==
    [][\A s \in cfg.sessions :
          LET m == sanitise_input(last'.message) IN
          Handled(s)' =>
              /\ s \in DOMAIN session_contact_data =>
                    IF FilledBy(s, m, last'.resp.status)
                    THEN /\ ~Active(s)' /\ Asked(s)' = "None"
                         /\ last'.resp.status = 200
                         /\ last'.resp.reply.text \in CONTACT_RESOLUTIONS
                    ELSE /\ Active(s)'
                         /\ last'.resp.reply.text \notin CONTACT_RESOLUTIONS
              /\ s \in DOMAIN session_cutoff_data =>
                    IF \/ FilledBy(s, m, last'.resp.status)
                       \/ EscapesRank(s, m)
                       \/ ReusesWithRank(s, m)
                    THEN /\ ~Active(s)' /\ Asked(s)' = "None"
                         /\ last'.resp.status \in {200, 500}
                         /\ last'.resp.status = 200 =>
                               last'.resp.reply.text =
                                   (IF EscapesRank(s, m) THEN "no_rank_cutoffs" ELSE "lookup")
                    ELSE /\ Active(s)'
                         /\ last'.resp.reply.text \notin {"no_rank_cutoffs", "lookup"}
              /\ (~Active(s) /\ last'.resp.status = 200) =>
                    last'.resp.intent =
                        (IF is_contact_request(m) THEN "contact_request" ELSE RoutedIntent(s, m))
      ]_vars

\* a contact request was submitted after its seventh message, the save
\* reported a failure, and the session is in no flow
C11_Witness ==
    \E s \in cfg.sessions :
        /\ last.session = s /\ last.resp.reply.text = "contact_failed"
        /\ ~Active(s) /\ Asked(s) = "None"
        /\ Len(session_history[s]) = 14

\* the latest request of session s was a cutoff question that named
\* branch, category and gender and was answered at once, with no rank
AnsweredInOne(s) ==
    /\ last.session = s
    /\ last.resp.status = 200
    /\ last.resp.intent \in {"cutoff", "mixed"}
    /\ last.resp.reply.text = "generated"
    /\ last.resp.reply.args[1].text = "lookup"
    /\ last.resp.reply.args[1].args[4] = NoRank

\* branches, category and gender of the cutoff query session s completed
\* last
CompletedQuery(s) ==
    IF AnsweredInOne(s)
    THEN SubSeq(last.resp.reply.args[1].args, 1, 3)
    ELSE <<session_last_cutoff[s]["branch"], session_last_cutoff[s]["category"],
           session_last_cutoff[s]["gender"]>>

\* C12: once a cutoff query of a session has completed without a rank,
\* whether its fields were collected over several turns or all came in the
\* message just answered, an eligibility message that names no branch is
\* answered with the reuse offer for the branches, category and gender of
\* that query, and the session awaits the confirmation
C12_ReuseOffered ==
    [][\A s \in cfg.sessions :
          LET m == sanitise_input(last'.message) IN
          (Handled(s)' /\ StartsLookup(s, m) /\ RoutedIntent(s, m) = "eligibility"
                /\ extract_branches(m) = <<>>
                /\ (AnsweredInOne(s) \/ s \in DOMAIN session_last_cutoff)) =>
              /\ last'.resp.status = 200
              /\ last'.resp.reply.text = "reuse_offer"
              /\ last'.resp.reply.args = CompletedQuery(s)
              /\ s \in DOMAIN session_cutoff_data'
              /\ Asked(s)' = "_confirm_reuse"
      ]_vars

\* after "cse oc cutoff" and "girls", the question "can i get with rank
\* 5000" is answered with the offer to reuse CSE / OC / Girls
C12_Witness ==
    \E s \in cfg.sessions :
        /\ last.session = s /\ last.message = M_elig_rank
        /\ last.resp.reply = Reply("reuse_offer", << << <<"CSE">> >>, <<"OC">>, <<"Girls">> >>)
        /\ Asked(s) = "_confirm_reuse"
        /\ Collected(s)["_extracted_rank"] = 5000

\* the request puts session s into the wait for a reuse confirmation
OffersReuse(s) ==
    \/ last'.session = s /\ last'.resp.reply.text = "reuse_offer"
    \/ Asked(s)' = "_confirm_reuse" /\ Asked(s) # "_confirm_reuse"

\* C13 as stated: a session comes to await a reuse confirmation only by a
\* message that the router takes as an eligibility question, that gives a
\* rank and names no branch, sent while a last cutoff query is saved for
\* the session
C13_ReuseOnlyWithRank ==
    [][\A s \in cfg.sessions :
          LET m == sanitise_input(last'.message) IN
          OffersReuse(s) =>
              /\ Handled(s)' /\ StartsLookup(s, m)
              /\ RoutedIntent(s, m) = "eligibility"
              /\ extract_rank(m) # NoRank
              /\ extract_branches(m) = <<>>
              /\ s \in DOMAIN session_last_cutoff
      ]_vars

\* C13, amended: a session comes to await a reuse confirmation exactly by
\* a message that the router takes as an eligibility question and that
\* names no branch, sent while a last cutoff query is saved for the
\* session; the message may give a rank, which is then carried along, or
\* give none
C13_ReuseOnlyWhen ==
    [][\A s \in cfg.sessions :
          LET m == sanitise_input(last'.message) IN
          /\ OffersReuse(s) <=>
                /\ Handled(s)'
                /\ s \in DOMAIN session_last_cutoff
                /\ extract_branches(m) = <<>>
                /\ StartsLookup(s, m)
                /\ RoutedIntent(s, m) = "eligibility"
          /\ OffersReuse(s) =>
                /\ last'.resp.reply.text = "reuse_offer"
                /\ Asked(s)' = "_confirm_reuse"
                /\ Get(Collected(s)', "_extracted_rank", NoRank) =
                      extract_rank(sanitise_input(last'.message))
      ]_vars

\* "can i get oc", which gives no rank, is answered with the reuse offer
C13_Witness ==
    \E s \in cfg.sessions :
        /\ last.session = s /\ last.message = M_elig_oc
        /\ last.resp.reply.text = "reuse_offer"
        /\ Asked(s) = "_confirm_reuse"
        /\ "_extracted_rank" \notin DOMAIN Collected(s)
        /\ s \in DOMAIN session_last_cutoff

\* the cutoff query offered to session s for reuse
Offered(s) == Collected(s)["_reuse_data"]

\* session s is in a collection that took over an offered cutoff query
Reusing(s) ==
    /\ s \in DOMAIN session_cutoff_data
    /\ "_reuse_data" \in DOMAIN session_cutoff_data[s]
    /\ Asked(s) # "_confirm_reuse"

\* C14: when a session that awaits a reuse confirmation answers with one
\* of yes / y / yeah / yep / sure / ok / okay, then if the offer carries a
\* rank the flow ends in that turn, and where the lookup answers the reply
\* is the eligibility for the offered branches, category and gender and
\* that rank; if it carries none, branch, category and gender of the
\* collection are the offered ones and the reply asks for the rank.  From
\* then on the session is asked for nothing but the rank until its flow
\* ends
C14_ReuseConfirmed ==
    [][\A s \in cfg.sessions :
          /\ (Handled(s)' /\ s \in DOMAIN session_cutoff_data
                /\ Asked(s) = "_confirm_reuse"
                /\ sanitise_input(last'.message) \in AFFIRMATIVE) =>
                IF Get(Collected(s), "_extracted_rank", NoRank) # NoRank
                THEN /\ ~Active(s)'
                     /\ last'.resp.status \in {200, 500}
                     /\ last'.resp.status = 200 =>
                           /\ last'.resp.intent = "eligibility"
                           /\ last'.resp.reply =
                                 LookupReply(Offered(s)["branch"], Offered(s)["category"],
                                             Offered(s)["gender"],
                                             Collected(s)["_extracted_rank"])
                ELSE /\ last'.resp.status = 200
                     /\ last'.resp.reply.text = "ask_rank_reuse"
                     /\ Reusing(s)'
          /\ Reusing(s)' =>
                /\ Asked(s)' = "rank"
                /\ \A f \in {"branch", "category", "gender"} :
                      Get(Collected(s)', f, None) = Offered(s)'[f]
                /\ (last'.session = s /\ last'.resp.status = 200) =>
                      last'.resp.reply.text
                          \in {"ask_rank_reuse", "rank_too_high", "rank_not_understood"}
      ]_vars

\* "yes" to an offer that carried the rank 5000 is answered with the
\* eligibility for CSE / OC / Girls at that rank, and the flow is over
C14_Witness ==
    \E s \in cfg.sessions :
        /\ last.session = s /\ last.message = M_yes
        /\ last.resp.intent = "eligibility"
        /\ last.resp.reply = LookupReply(<< <<"CSE">> >>, <<"OC">>, <<"Girls">>, 5000)
        /\ ~Active(s)

\* C15: when a session that awaits a reuse confirmation answers with
\* anything but yes / y / yeah / yep / sure / ok / okay, its collection
\* is emptied and restarted: the flow is eligibility, the awaited field is
\* the branch, and the collection holds nothing else: no offered query, no
\* branch, category, gender or rank, nothing taken from the answer, and not
\* the rank that the offer carried.  Where the branch list can be read the
\* reply asks for the branch
C15_ReuseDeclined ==
    [][\A s \in cfg.sessions :
          (Handled(s)' /\ s \in DOMAIN session_cutoff_data
                /\ Asked(s) = "_confirm_reuse"
                /\ sanitise_input(last'.message) \notin AFFIRMATIVE) =>
              /\ s \in DOMAIN session_cutoff_data' /\ s \notin DOMAIN session_contact_data'
              /\ DOMAIN session_cutoff_data'[s] = {"_flow", "_waiting_for"}
              /\ session_cutoff_data'[s]["_flow"] = "eligibility"
              /\ session_cutoff_data'[s]["_waiting_for"] = "branch"
              /\ last'.resp.status \in {200, 500}
              /\ last'.resp.status = 200 =>
                    last'.resp.reply = Reply("ask_branch_fresh", <<BranchCatalog>>)
      ]_vars

\* "cse" as the answer to the reuse offer is not taken as the branch: the
\* session is asked for the branch, with nothing collected
C15_Witness ==
    \E s \in cfg.sessions :
        /\ last.session = s /\ last.message = M_cse
        /\ last.resp.reply.text = "ask_branch_fresh"
        /\ Asked(s) = "branch"
        /\ Filled(Collected(s)) = {}
        /\ s \in DOMAIN session_last_cutoff

\* the digits of a message that is one decimal number, or <<>>
PlainNumber(m) == IF Len(m) = 1 THEN Lookup(DigitWords, m[1], <<>>) ELSE <<>>

\* the number is above the highest rank
AboveRange(d) ==
    /\ d # <<>>
    /\ (Len(Significant(d)) > 6 \/ ParseInt(Significant(d)) > RANK_MAX)

\* the number is below the lowest rank
BelowRange(d) ==
    /\ d # <<>>
    /\ Len(Significant(d)) <= 6
    /\ ParseInt(Significant(d)) < 1

\* the message holds no number and no phrase that gives the rank up
NoNumber(m) ==
    /\ FirstNumber(m) = <<>>
    /\ FirstKMatch(m) = 0
    /\ ~AnyInText(NO_RANK_PHRASES, m)

\* the request was answered with the re-prompt `text`, and left the
\* collections as they were: no rank stored, the rank still awaited
Reprompted(s, text) ==
    /\ last'.resp.status = 200
    /\ last'.resp.reply.text = text
    /\ session_cutoff_data' = session_cutoff_data
    /\ "rank" \notin DOMAIN session_cutoff_data'[s]
    /\ Asked(s)' = "rank"

NumberAnswer(m) ==
    /\ FirstNumber(m) # <<>>
    /\ FirstKMatch(m) = 0
    /\ ~AnyInText(NO_RANK_PHRASES, m)

RECURSIVE Digits(_)
\* str(r): the decimal digits of a positive integer
Digits(r) == IF r < 10 THEN <<r>> ELSE Append(Digits(r \div 10), r % 10)

\* the token that is the decimal text of r
DecimalToken(r) == (CHOOSE p \in DigitWords : p[2] = Digits(r))[1]

\* the ranks whose decimal text is a token of Vocabulary: both ends of the
\* range and values between
RankSamples == {1, 2, 3, 4, 5000, 12345, RANK_MAX}

\* ranks at both ends of the range and spread between them, of every
\* number of digits from one to six
RankGrid == (1..20) \cup {9973 * i : i \in 1..20} \cup ((RANK_MAX - 20)..RANK_MAX)

\* the rank values a collection dict holds
StoredRanks(collected) ==
    {collected[f] : f \in {"rank", "_extracted_rank"} \cap DOMAIN collected}

\* C17: the rank extracted from the decimal text of r is r, for the ranks
\* r from 1 to 200000: the digits of r are read back as the value r and
\* pass the range test, and the message that is the decimal text of r
\* yields the rank r; every rank a collection holds, as the rank or as
\* the rank carried by a reuse offer, lies in 1..200000; and so does every
\* rank an eligibility was looked up for, which is the number itself when
\* the message was a number
C17_RankRoundTrip ==
    /\ \A r \in RankGrid :
          InRankRange(Digits(r), 1) /\ ParseInt(Digits(r)) = r
    /\ \A r \in RankSamples :
          /\ DecimalToken(r) \in Vocabulary
          /\ extract_rank(<<DecimalToken(r)>>) = r
    /\ \A s \in DOMAIN session_cutoff_data :
          StoredRanks(session_cutoff_data[s]) \subseteq 1..RANK_MAX
    /\ (last.resp.status = 200 /\ last.resp.reply.text = "lookup"
            /\ last.resp.reply.args[4] # NoRank) =>
          /\ last.resp.reply.args[4] \in 1..RANK_MAX
          /\ PlainNumber(last.message) # <<>> =>
                Digits(last.resp.reply.args[4]) = PlainNumber(last.message)

\* "200000", the highest rank, was given as the rank, and the eligibility
\* was looked up for the rank 200000
C17_Witness ==
    /\ last.message = M_rank_max
    /\ last.resp.status = 200 /\ last.resp.reply.text = "lookup"
    /\ last.resp.reply.args[4] = RANK_MAX

\* C18: while the rank is awaited, a reply that is one of the phrases
\* that give the rank up ("no rank", "don't have", "dont have", "no",
\* "don't know", "not sure", "skip") ends the flow in that turn: the
\* session is in no flow, so no rank is stored or asked for afterwards, and
\* where the lookup answers the reply shows the cutoffs of the collected
\* branches, category and gender, with no rank
C18_RankEscape ==
    [][\A s \in cfg.sessions :
          (Handled(s)' /\ s \in DOMAIN session_cutoff_data /\ Asked(s) = "rank"
                /\ last'.message \in NO_RANK_PHRASES) =>
              /\ ~Active(s)' /\ Asked(s)' = "None"
              /\ last'.resp.status \in {200, 500}
              /\ last'.resp.status = 200 =>
                    /\ last'.resp.intent = "cutoff"
                    /\ last'.resp.reply =
                          Reply("no_rank_cutoffs",
                                <<Get(Collected(s), "branch", <<>>),
                                  Get(Collected(s), "category", None),
                                  Get(Collected(s), "gender", None)>>)
      ]_vars

\* "no" as the answer to the rank question is answered with the cutoffs
\* of CSE / OC / Boys, and the flow is over
C18_Witness ==
    \E s \in cfg.sessions :
        /\ last.session = s /\ last.message = M_no
        /\ last.resp.reply = Reply("no_rank_cutoffs", << << <<"CSE">> >>, <<"OC">>, <<"Boys">> >>)
        /\ last.resp.intent = "cutoff"
        /\ ~Active(s)

\* the numbers of exactly ten digits that stand as words in a message
TenDigitWords(m) ==
    {Words(m)[i] : i \in {j \in 1..Len(Words(m)) :
                            Len(Lookup(DigitWords, Words(m)[j], <<>>)) = 10}}

\* C19: while the contact flow awaits the phone, a message with no number
\* of ten digits is answered with the phone re-prompt, and the phone stays
\* unset and awaited; a message with such a number has that number, its
\* ten digits and nothing of the text around it, stored as the phone, and
\* is answered with the programme question
C19_PhoneValidation ==
    [][\A s \in cfg.sessions :
          LET m == sanitise_input(last'.message) IN
          (Handled(s)' /\ s \in DOMAIN session_contact_data /\ Asked(s) = "phone") =>
              /\ last'.resp.status = 200
              /\ s \in DOMAIN session_contact_data'
              /\ IF TenDigitWords(m) = {}
                 THEN /\ last'.resp.reply.text = "phone_invalid"
                      /\ "phone" \notin DOMAIN session_contact_data'[s]
                      /\ Asked(s)' = "phone"
                      /\ session_contact_data' = session_contact_data
                 ELSE /\ "phone" \in DOMAIN session_contact_data'[s]
                      /\ \E w \in TenDigitWords(m) : session_contact_data'[s]["phone"] = <<w>>
                      /\ Asked(s)' = "programme"
                      /\ last'.resp.reply.text = "ask_programme"
      ]_vars

\* "9876543210 call me" is taken as the phone 9876543210, and the
\* programme is asked for
C19_Witness ==
    \E s \in cfg.sessions :
        /\ s \in DOMAIN session_contact_data
        /\ last.session = s /\ last.message = M_phone
        /\ last.resp.reply.text = "ask_programme"
        /\ Get(session_contact_data[s], "phone", None) = <<"9876543210">>
        /\ Asked(s) = "programme"

\* C20: a message with a contact trigger phrase, sent to a session that
\* is in no flow, starts the contact flow: the session is in the contact
\* store with nothing collected and the name awaited, it is not in the
\* cutoff / eligibility store, and the reply asks for the name with the
\* contact intent, whatever the classifier makes of the message (greeting,
\* out of scope, cutoff, eligibility or anything else) and whether or not
\* the lookups and the answer generation are available
C20_ContactTriggerFirst ==
    [][\A s \in cfg.sessions :
          LET m == sanitise_input(last'.message) IN
          (Handled(s)' /\ ~Active(s) /\ AnyInText(CONTACT_KEYWORDS, m)) =>
              /\ last'.resp.status = 200
              /\ last'.resp.intent = "contact_request"
              /\ last'.resp.reply = Reply("ask_name", <<>>)
              /\ s \in DOMAIN session_contact_data'
              /\ session_contact_data'[s] = Put(EmptyDict, "_waiting_for", "name")
              /\ s \notin DOMAIN session_cutoff_data'
      ]_vars

\* "can i get cse call me", an eligibility question to the classifier,
\* started the contact flow
C20_Witness ==
    \E s \in cfg.sessions :
        /\ last.session = s /\ last.message = M_elig_call_me
        /\ classify(sanitise_input(last.message)) = "eligibility"
        /\ last.resp.reply.text = "ask_name"
        /\ s \in DOMAIN session_contact_data /\ Asked(s) = "name"
        /\ s \notin DOMAIN session_cutoff_data

\* the answer m resolves the flow session s is in: it fills the last
\* missing field, gives the rank up, or accepts a reuse offer with a rank
Resolves(s, m, status) ==
    /\ Active(s)
    /\ \/ FilledBy(s, m, status)
       \/ EscapesRank(s, m)
       \/ ReusesWithRank(s, m)

\* the replies that resolve a flow: the outcome of a contact request, the
\* fixed replies standing in for it when the save fails, and the looked-up
\* cutoffs
RESOLUTIONS == CONTACT_RESOLUTIONS \cup {"lookup", "no_rank_cutoffs"}

\* C21: a request that resolves a completed flow is answered with a reply,
\* never with an error, whether or not the cutoff lookup and the contact
\* save work: the status is 200, the reply is a resolution of the flow or
\* the fixed reply that stands in for it, and the session is in no flow
C21_FailureRecovered ==
    [][\A s \in cfg.sessions :
          LET m == sanitise_input(last'.message) IN
          (Handled(s)' /\ Resolves(s, m, last'.resp.status)) =>
              /\ last'.resp.status = 200
              /\ last'.resp.reply.text \in RESOLUTIONS
              /\ ~Active(s)' /\ Asked(s)' = "None"
      ]_vars

\* "cse cutoff", "oc", then "girls" while the cutoff lookup fails: the
\* request ends with an error, the session is in no flow, the snapshot is
\* written and the turn is not in the history
C21_Witness ==
    \E s \in cfg.sessions :
        /\ last.session = s /\ last.message = M_girls
        /\ last.resp.status = 500
        /\ ~Active(s)
        /\ s \in DOMAIN session_last_cutoff
        /\ session_last_cutoff[s]["gender"] = <<"Girls">>
        /\ Len(session_history[s]) = 4

\* the request carried a message that is empty once normalised
Blank == sanitise_input(last.message) = <<>>

\* C22: a request whose message is empty once normalised is refused with an
\* error (400 when the rate limit lets it through, 429 otherwise) and
\* produces no reply; the flow stores, and with them the collected fields
\* and the awaited field of every session, the histories, the pending
\* markers and the snapshots of the last cutoff query are unchanged
C22_BlankRejected ==
    [][Blank' =>
          /\ last'.resp.status \in {400, 429}
          /\ last'.resp.reply = NoReply
          /\ UNCHANGED <<session_contact_data, session_cutoff_data, session_history,
                         session_pending_intent, session_last_cutoff>>
      ]_vars

\* a blank message sent to a session that holds the snapshot of a completed
\* cutoff query and is in the contact flow: refused with 400, the session
\* still awaits the name
C22_Witness ==
    \E s \in cfg.sessions :
        /\ last.session = s /\ Blank /\ last.resp.status = 400
        /\ s \in DOMAIN session_contact_data /\ Asked(s) = "name"
        /\ s \in DOMAIN session_last_cutoff
        /\ Len(session_history[s]) = 6

\* what the module state holds for session s: its entry in each of the
\* five per-session maps, or nothing where it has none
SessionState(s) ==
    [hist |-> IF s \in DOMAIN session_history THEN <<session_history[s]>> ELSE <<>>,
     pend |-> IF s \in DOMAIN session_pending_intent
              THEN <<session_pending_intent[s]>> ELSE <<>>,
     cutoff |-> IF s \in DOMAIN session_cutoff_data THEN <<session_cutoff_data[s]>> ELSE <<>>,
     lastc |-> IF s \in DOMAIN session_last_cutoff THEN <<session_last_cutoff[s]>> ELSE <<>>,
     contact |-> IF s \in DOMAIN session_contact_data
                 THEN <<session_contact_data[s]>> ELSE <<>>]

\* the bucket of client c, or nothing where it has none
Bucket(c) == IF c \in DOMAIN rate_buckets THEN <<rate_buckets[c]>> ELSE <<>>

\* C23: a request for session s sent by client c leaves the flow state, the
\* collected fields, the history, the pending marker and the snapshot of
\* every other session as they were, and the bucket of every other client
C23_OwnStateOnly ==
    [][/\ \A s \in cfg.sessions \ {last'.session} : SessionState(s)' = SessionState(s)
       /\ \A c \in cfg.clients \ {last'.client} : Bucket(c)' = Bucket(c)
      ]_vars

\* client c1 started a contact request in session s1 while session s2,
\* served to client c2, was in the middle of a cutoff query
C23_Witness ==
    /\ last.session = "s1" /\ last.client = "c1" /\ last.message = M_call_me
    /\ "s1" \in DOMAIN session_contact_data
    /\ "s2" \in DOMAIN session_cutoff_data /\ Asked("s2") = "gender"
    /\ "s1" \notin DOMAIN session_cutoff_data
    /\ "c2" \in DOMAIN rate_buckets /\ Len(rate_buckets["c2"]) = 1
    /\ Len(rate_buckets["c1"]) = 1

\* the values of `_waiting_for` that the continuation code of each flow
\* has a branch for
CONTACT_WAITS == {"name", "email", "phone", "programme", "query_type", "message"}
CUTOFF_WAITS == {"_confirm_reuse", "branch", "category", "gender", "rank"}

\* the questions that ask for field w
QuestionsFor(w) ==
    {"ask_" \o w} \cup (IF w = "rank" THEN {"ask_rank_reuse"} ELSE {})
                  \cup (IF w = "branch" THEN {"ask_branch_fresh"} ELSE {})

\* the three outcomes of a request to a session in a flow
RepromptsSame(s) ==
    /\ Asked(s) \in DOMAIN REPROMPTS
    /\ last'.resp.reply.text \in REPROMPTS[Asked(s)]
    /\ Active(s)' /\ Collected(s)' = Collected(s)

Advances(s) ==
    /\ Active(s)' /\ Asked(s)' # Asked(s)
    /\ last'.resp.reply.text \in QuestionsFor(Asked(s)')

Completes(s) ==
    /\ ~Active(s)'
    /\ last'.resp.reply.text \in RESOLUTIONS

\* C24: a message that is not blank, sent to a session in a flow, is
\* answered (status 200) with a re-prompt for the awaited field that leaves
\* the collection as it was, with the question for another field that the
\* session then awaits, or with the resolution of the flow, the session
\* being in no flow; and the field a session in a flow awaits is always one
\* its flow's continuation code has a branch for
C24_TransitionsTotal ==
    [][\A s \in cfg.sessions :
          /\ (Handled(s)' /\ Active(s)) =>
                /\ last'.resp.status = 200
                /\ RepromptsSame(s) \/ Advances(s) \/ Completes(s)
          /\ s \in DOMAIN session_contact_data' => Asked(s)' \in CONTACT_WAITS
          /\ s \in DOMAIN session_cutoff_data' => Asked(s)' \in CUTOFF_WAITS
      ]_vars

\* "cutoff", then "all" while the branch list cannot be read: the request
\* ends with an error, and the session still awaits the branch with
\* nothing collected and only the first turn in its history
C24_Witness ==
    \E s \in cfg.sessions :
        /\ last.session = s /\ last.message = M_all
        /\ last.resp.status = 500
        /\ s \in DOMAIN session_cutoff_data /\ Asked(s) = "branch"
        /\ "branch" \notin DOMAIN Collected(s)
        /\ s \in DOMAIN session_history /\ Len(session_history[s]) = 2

\* the received requests whose handler runs in this step
Served == inflight \ inflight'

\* C25: requests for one session that are in flight together are handled
\* one after the other, each against the state the one before left.  The
\* handler of an answer finds awaited a field that no earlier answer has
\* filled; an accepted answer fills that field and no other, and the
\* session then awaits another field or is in no flow; and unless the
\* answer declines a reuse offer, every field collected before is still
\* there with its value while the flow lasts: no answer is lost, and no two
\* requests take their answers for the same awaited field
C25_OneAdvancePerAnswer ==
    [][\A q \in Served :
          LET s == q.session
              m == sanitise_input(q.message)
              w == Asked(s)
          IN  (Active(s) /\ m # <<>> /\ last'.resp.status = 200) =>
                  /\ w \notin Filled(Collected(s))
                  /\ Active(s)' =>
                        /\ Filled(Collected(s)') \ Filled(Collected(s)) \subseteq {w}
                        /\ w # "_confirm_reuse" => SameFields(Collected(s), Collected(s)')
                        /\ Accepted(w, m) =>
                              /\ w \in Filled(Collected(s)')
                              /\ Asked(s)' # w
      ]_vars

\* "cse" and "oc" were both sent while the branch was awaited; "cse" has
\* been handled and taken as the branch, and "oc", still to be handled,
\* will be taken as the category
C25_Witness ==
    \E q \in inflight :
        /\ WaitingFor(q.seen) = "branch" /\ q.message = M_oc
        /\ last.session = q.session /\ last.message = M_cse
        /\ Asked(q.session) = "category"
        /\ Collected(q.session)["branch"] = << <<"CSE">> >>
        /\ Len(session_history[q.session]) = 4

\* C26 as stated: whenever a request calls the cutoff lookup or the contact
\* save to resolve a flow, the session has left its flow store before the
\* call is made
C26_ClearedBeforeCall ==
    last.call.to # "none" => ~last.call.active

\* C26: a request that resolves a cutoff / eligibility flow removes the
\* session from the flow store before it calls the cutoff lookup; a request
\* that submits a contact request calls the save while the session is still
\* in the contact store, and removes it once the save has returned or
\* raised; in both cases the session is in no flow when the request ends,
\* whether the call answered, reported a failure or raised
C26_ClearedByCallEnd ==
    /\ last.call.to = "lookup" => ~last.call.active
    /\ last.call.to = "save" => last.call.active
    /\ last.call.to # "none" => ~Active(last.session)

\* the save of a contact request raised: the call was made with the
\* session still in the contact flow, and the session has left it since
C26_Witness ==
    /\ last.call.to = "save" /\ last.call.active
    /\ last.resp.reply.text = "contact_error"
    /\ ~Active(last.session)
    /\ Len(session_history[last.session]) = 14

\* the sources a response carries by the code that builds it: the cutoff
\* database for a reply that reports looked-up cutoffs, the retrieved
\* chunks and the cutoff database for a generated answer that used them,
\* and nothing for any other reply
SourcesOf(resp) ==
    IF resp.status # 200 THEN {}
    ELSE IF resp.reply.text \in {"lookup", "no_rank_cutoffs"} THEN {DB_SOURCE}
    ELSE IF resp.reply.text = "generated"
         THEN (IF resp.reply.args[1] # NoReply THEN {DB_SOURCE} ELSE {})
              \cup (IF resp.reply.args[2] THEN {RAG_SOURCE} ELSE {})
    ELSE {}

\* C27 as stated: a response carries sources only if it is a generated
\* answer of the informational path
C27_SourcesOnlyInformational ==
    last.resp.sources # {} =>
        /\ last.resp.reply.text = "generated"
        /\ last.resp.intent \in {"informational", "mixed"}

\* C27: prompts, re-prompts, greetings, out-of-scope replies and every
\* reply of the contact flow carry no sources; a reply that reports
\* looked-up cutoffs, the resolution of a cutoff / eligibility flow
\* included, carries the cutoff database as its one source; a generated
\* answer carries the retrieved chunks when retrieval was used, which only
\* the informational and mixed intents do, and the cutoff database when
\* cutoffs were looked up for it
C27_SourcesByReply ==
    /\ last.resp.sources = SourcesOf(last.resp)
    /\ RAG_SOURCE \in last.resp.sources => last.resp.intent \in {"informational", "mixed"}
    /\ last.resp.reply.text \notin {"lookup", "no_rank_cutoffs", "generated"} =>
           last.resp.sources = {}

\* "cse cutoff", "oc", "girls": the resolution of the cutoff flow names the
\* cutoff database as its source
C27_Witness ==
    \E s \in cfg.sessions :
        /\ last.session = s /\ last.message = M_girls
        /\ last.resp.reply = LookupReply(<< <<"CSE">> >>, <<"OC">>, <<"Girls">>, NoRank)
        /\ last.resp.intent = "cutoff"
        /\ last.resp.sources = {DB_SOURCE}
        /\ ~Active(s)

\* a question about the user's chances that states the user's rank
EligibilityQuestionWithRank(m) ==
    /\ has_eligibility_intent(m)
    /\ extract_rank(m) # NoRank
    /\ ~is_greeting(m)
    /\ ~(mentions_other_college(m) \/ has_compare_intent(m))

\* C28 as stated: the classifier labels an eligibility question that
\* states the user's rank with the cutoff intent
C28_RankQuestionIsCutoff ==
    [][\A s \in cfg.sessions :
          LET m == sanitise_input(last'.message) IN
          (Handled(s)' /\ ~Active(s) /\ ~AnyInText(CONTACT_KEYWORDS, m)
             /\ EligibilityQuestionWithRank(m)) =>
              /\ classify(m) = "cutoff"
              /\ last'.resp.status = 200 => last'.resp.intent = "cutoff"
      ]_vars

\* "can i get ece 21k" was answered with the eligibility intent and began
\* an eligibility flow for ECE with rank 21000
C28_Witness ==
    \E s \in cfg.sessions :
        /\ Handled(s)
        /\ sanitise_input(last.message) = M_elig_ece_21k
        /\ last.resp.status = 200
        /\ last.resp.intent = "eligibility"
        /\ s \in DOMAIN session_cutoff_data
        /\ session_cutoff_data[s]["_flow"] = "eligibility"
        /\ session_cutoff_data[s]["branch"] = << <<"ECE">> >>
        /\ session_cutoff_data[s]["rank"] = 21000

\* C29: once _check_rate_limit has run for a client at time now, be the
\* request let through or refused, every timestamp left in the bucket of
\* that client is less than 60 seconds old, and the timestamps of the
\* bucket are in non-decreasing order
C29_BucketFreshAndOrdered ==
    last.client # "" =>
        LET b == Get(rate_buckets, last.client, <<>>) IN
        /\ \A i \in 1..Len(b) : clock - b[i] < WINDOW
        /\ \A i, j \in 1..Len(b) : i < j => b[i] <= b[j]
        /\ last.resp.status = 429 => Len(b) >= cfg.rate_limit
        /\ last.resp.status # 429 => Len(b) >= 1 /\ b[Len(b)] = clock

\* a client let through at times 1, 60 and 61: the check at time 61 took
\* the timestamp of time 1 out of the bucket and added its own
C29_Witness ==
    \E c \in cfg.clients :
        /\ last.client = c /\ last.resp.status # 429 /\ clock = 61
        /\ \E i \in 1..Len(admitted[c]) : admitted[c][i] = 1
        /\ rate_buckets[c] = <<60, 61>>

\* C30: the last cutoff query kept for a session is never removed, and it
\* changes only in a request of that session that completes a cutoff flow
\* holding no rank: the session was in the cutoff store with one of branch,
\* category and gender awaited and is in no flow afterwards, and what is
\* kept is the branch list, category and gender of that flow, those the
\* reply reports the cutoffs of. Completing an eligibility flow with a
\* rank, giving the rank up, accepting or declining a reuse offer, the
\* contact flow and greetings leave it as it was
C30_LastCutoffOnlyAtCompletion ==
    [][\A s \in cfg.sessions :
          /\ s \in DOMAIN session_last_cutoff => s \in DOMAIN session_last_cutoff'
          /\ Get(session_last_cutoff', s, None) # Get(session_last_cutoff, s, None) =>
                /\ Handled(s)'
                /\ last'.resp.status \in {200, 500}
                /\ s \in DOMAIN session_cutoff_data
                /\ ~Active(s)'
                /\ Get(session_cutoff_data[s], "_flow", "cutoff") = "cutoff"
                /\ "rank" \notin DOMAIN session_cutoff_data[s]
                /\ Asked(s) \in {"branch", "category", "gender"}
                /\ DOMAIN session_last_cutoff'[s] = {"branch", "category", "gender"}
                /\ \A f \in {"branch", "category", "gender"} \ {Asked(s)} :
                      /\ f \in DOMAIN session_cutoff_data[s]
                      /\ session_last_cutoff'[s][f] = session_cutoff_data[s][f]
                /\ last'.resp.status = 200 =>
                      /\ last'.resp.intent = "cutoff"
                      /\ last'.resp.reply =
                            LookupReply(session_last_cutoff'[s]["branch"],
                                        session_last_cutoff'[s]["category"],
                                        session_last_cutoff'[s]["gender"], NoRank)
      ]_vars

\* the cutoff query for CSE, OC, girls is still kept once the reuse offer
\* made for "can i get with rank 5000" was accepted and the eligibility
\* flow completed with rank 5000
C30_Witness ==
    \E s \in cfg.sessions :
        /\ Handled(s)
        /\ sanitise_input(last.message) = M_yes
        /\ last.resp.status = 200
        /\ last.resp.reply = LookupReply(<< <<"CSE">> >>, <<"OC">>, <<"Girls">>, 5000)
        /\ ~Active(s)
        /\ s \in DOMAIN session_last_cutoff
        /\ session_last_cutoff[s]["branch"] = << <<"CSE">> >>
        /\ session_last_cutoff[s]["category"] = <<"OC">>
        /\ session_last_cutoff[s]["gender"] = <<"Girls">>

\* C31: a request answered with a question of the cutoff / eligibility
\* collection leaves the marker "awaiting_cutoff_details" for its session;
\* while the marker is there, a message the classifier calls informational
\* is routed as a cutoff query; and a session that is in no flow once its
\* request is answered has no marker
C31_MarkerAfterQuestion ==
    [][\A s \in cfg.sessions :
          /\ (Handled(s)' /\ last'.resp.status = 200 /\ s \in DOMAIN session_cutoff_data') =>
                Get(session_pending_intent', s, "None") = "awaiting_cutoff_details"
          /\ (Get(session_pending_intent, s, "None") = "awaiting_cutoff_details"
                /\ classify(sanitise_input(last'.message)) = "informational") =>
                RoutedIntent(s, sanitise_input(last'.message)) = "cutoff"
          /\ (Handled(s)' /\ ~Active(s)') => s \notin DOMAIN session_pending_intent'
      ]_vars

\* "cutoff" was answered with the branch question, the session awaits the
\* branch, and no session has a marker
C31_Witness ==
    \E s \in cfg.sessions :
        /\ Handled(s)
        /\ sanitise_input(last.message) = M_cutoff
        /\ last.resp.status = 200
        /\ s \in DOMAIN session_cutoff_data /\ Asked(s) = "branch"
        /\ session_pending_intent = EmptyDict

PROGRAMMES == {<<"B.Tech">>, <<"M.Tech">>, <<"MCA">>}
QUERY_TYPES == {<<"fraud_report">>, <<"general_inquiry">>, <<"dissatisfied">>, <<"other">>}

\* the answer names a choice of the programme menu: a number of the menu
\* or a name of the programme, anywhere in the text
NamesProgramme(m) ==
    AnyInText({<<"1">>, <<"b.tech">>, <<"btech">>, <<"bachelor">>,
               <<"2">>, <<"m.tech">>, <<"mtech">>, <<"master">>, <<"3">>, <<"mca">>}, m)

\* the answer names a choice of the query type menu
NamesQueryType(m) ==
    AnyInText({<<"1">>, <<"fraud">>, <<"agent">>, <<"scam">>,
               <<"2">>, <<"general">>, <<"inquiry">>, <<"admission">>,
               <<"3">>, <<"not", "satisfied">>, <<"dissatisfied">>, <<"chatbot">>,
               <<"4">>, <<"other">>}, m)

\* C32: an answer to the programme or query type question that names no
\* choice of the menu is answered with the menu again, and the session
\* keeps its collection as it was, the same field awaited; so a programme
\* held by a session is one of B.Tech, M.Tech and MCA, and a query type one
\* of fraud_report, general_inquiry, dissatisfied and other
C32_MenuChoicesOnly ==
    [][\A s \in cfg.sessions :
          LET m == sanitise_input(last'.message) IN
          /\ (Handled(s)' /\ s \in DOMAIN session_contact_data
                /\ \/ Asked(s) = "programme" /\ ~NamesProgramme(m)
                   \/ Asked(s) = "query_type" /\ ~NamesQueryType(m)) =>
                /\ last'.resp.status = 200
                /\ last'.resp.intent = "contact_request"
                /\ last'.resp.reply = Reply(ContactReprompt(Asked(s)), <<>>)
                /\ session_contact_data' = session_contact_data
          /\ s \in DOMAIN session_contact_data' =>
                /\ "programme" \in DOMAIN session_contact_data'[s] =>
                      session_contact_data'[s]["programme"] \in PROGRAMMES
                /\ "query_type" \in DOMAIN session_contact_data'[s] =>
                      session_contact_data'[s]["query_type"] \in QUERY_TYPES
      ]_vars

\* the programme question was answered "hi" and is asked again with its
\* menu, the session holding a name, an email address and a phone number
\* and no programme
C32_Witness ==
    \E s \in cfg.sessions :
        /\ Handled(s)
        /\ sanitise_input(last.message) = M_hi
        /\ last.resp.reply = Reply("programme_invalid", <<>>)
        /\ s \in DOMAIN session_contact_data /\ Asked(s) = "programme"
        /\ {"name", "email", "phone"} \subseteq DOMAIN session_contact_data[s]
        /\ "programme" \notin DOMAIN session_contact_data[s]

REQUIRED_CONTACT_FIELDS == {"name", "email", "phone", "programme", "query_type"}

\* C33: the message question is asked in the turn that fills the last of
\* the five required contact fields, and never again: whatever is sent in
\* reply, the flow is completed in that turn and the session leaves it,
\* whether the save succeeds, fails or raises. The save is called unless
\* the reply reports an error (its import may have failed), and the
\* collection it is called with holds the five fields as collected and a
\* message key: the reply as sent, or, when the reply is "skip", the null
\* value
C33_MessageOnceThenSubmit ==
    [][\A s \in cfg.sessions :
          LET m == sanitise_input(last'.message) IN
          /\ (Handled(s)' /\ s \in DOMAIN session_contact_data'
                /\ Asked(s)' = "message") =>
                /\ s \in DOMAIN session_contact_data /\ Asked(s) = "query_type"
                /\ last'.resp.reply = Reply("ask_message", <<>>)
                /\ REQUIRED_CONTACT_FIELDS \subseteq Filled(session_contact_data'[s])
                /\ "message" \notin DOMAIN session_contact_data'[s]
          /\ (Handled(s)' /\ s \in DOMAIN session_contact_data
                /\ Asked(s) = "message") =>
                /\ last'.resp.status = 200
                /\ last'.resp.reply.text \in
                      {"contact_submitted", "contact_failed", "contact_error"}
                /\ ~Active(s)'
                /\ last'.call.to = "save" \/ last'.resp.reply.text = "contact_error"
                /\ last'.call.to = "save" =>
                      /\ "message" \in DOMAIN last'.call.data
                      /\ last'.call.data["message"] =
                            (IF m = <<"skip">> THEN None ELSE m)
                      /\ \A f \in REQUIRED_CONTACT_FIELDS :
                            last'.call.data[f] = session_contact_data[s][f]
      ]_vars

\* the message question was answered "skip": the request was submitted
\* with the message key holding the null value, and the session has left
\* the flow
C33_Witness ==
    \E s \in cfg.sessions :
        /\ Handled(s)
        /\ sanitise_input(last.message) = M_skip
        /\ last.call.to = "save"
        /\ "message" \in DOMAIN last.call.data
        /\ last.call.data["message"] = None
        /\ last.call.data["query_type"] = <<"general_inquiry">>
        /\ last.resp.reply.text = "contact_submitted"
        /\ ~Active(s)

\* the keys a collection dict keeps its own position under
BOOKKEEPING == {"_flow", "_waiting_for", "_reuse_data", "_extracted_rank"}

\* the fields each flow asks for
DeclaredFields(flow) ==
    CASE flow = "contact" -> REQUIRED_CONTACT_FIELDS \cup {"message"}
      [] flow = "eligibility" -> {"branch", "category", "gender", "rank"}
      [] OTHER -> {"branch", "category", "gender"}

\* C34: in every reachable state the collection of a session holds, next
\* to its bookkeeping keys, only fields its flow asks for: the collection
\* of a cutoff flow holds no rank, that of a cutoff or eligibility flow no
\* contact field, and that of a contact flow no branch, category, gender
\* or rank; a reuse offer is kept in eligibility collections only
C34_FieldsOfOwnFlow ==
    \A s \in cfg.sessions :
        /\ s \in DOMAIN session_contact_data =>
              DOMAIN session_contact_data[s] \subseteq
                  DeclaredFields("contact") \cup {"_waiting_for"}
        /\ s \in DOMAIN session_cutoff_data =>
              LET d == session_cutoff_data[s]
                  flow == Get(d, "_flow", "cutoff")
              IN  /\ flow \in {"cutoff", "eligibility"}
                  /\ DOMAIN d \ BOOKKEEPING \subseteq DeclaredFields(flow)
                  /\ DOMAIN d \cap {"_reuse_data", "_extracted_rank"} # {} =>
                        flow = "eligibility"

\* "cse cutoff 5000" began a cutoff flow that holds the branch and no rank,
\* and "5000" was then taken as the category
C34_Witness ==
    \E s \in cfg.sessions :
        /\ Handled(s)
        /\ sanitise_input(last.message) = M_rank
        /\ s \in DOMAIN session_cutoff_data
        /\ session_cutoff_data[s]["_flow"] = "cutoff"
        /\ Asked(s) = "gender"
        /\ "rank" \notin DOMAIN session_cutoff_data[s]
        /\ session_cutoff_data[s]["branch"] = << <<"CSE">> >>
        /\ "category" \in DOMAIN session_cutoff_data[s]

\* C35 as stated: every answer to the branch, category or gender question
\* is taken: the request is answered (status 200), the awaited field holds
\* a value afterwards unless the flow is over, and the session awaits
\* another field or is in no flow
C35_EveryAnswerAdvances ==
    [][\A s \in cfg.sessions :
          (Handled(s)' /\ s \in DOMAIN session_cutoff_data
             /\ Asked(s) \in {"branch", "category", "gender"}) =>
              /\ last'.resp.status = 200
              /\ \/ ~Active(s)'
                 \/ /\ s \in DOMAIN session_cutoff_data'
                    /\ Asked(s) \in Filled(session_cutoff_data'[s])
                    /\ Asked(s)' # Asked(s)
      ]_vars

\* "cutoff" began a cutoff flow, and "all" answered its branch question
\* while the branch list could not be read: the request ended with an
\* error, the answer filled no field, and the flow is where it was, at
\* the branch question, not completed
C35_Witness ==
    \E s \in cfg.sessions :
        /\ Handled(s)
        /\ extract_branches(sanitise_input(last.message)) = << <<"ALL">> >>
        /\ last.resp.status = 500
        /\ s \in DOMAIN session_cutoff_data
        /\ session_cutoff_data[s]["_flow"] = "cutoff"
        /\ Asked(s) = "branch"
        /\ Filled(session_cutoff_data[s]) = {}
        /\ s \notin DOMAIN session_last_cutoff

\* C36: a session in the contact flow stays in it, and enters no other
\* flow, whatever is sent, until the message question has been answered:
\* it leaves the contact store only in a request of its own that answers
\* the message question, when it holds a name of two characters or more,
\* an email address, a phone number, a programme and a query type of the
\* menus, and the request is then submitted, or answered with the error
\* reply when the save could not be called
C36_ContactNotAbandoned ==
    [][\A s \in cfg.sessions :
          s \in DOMAIN session_contact_data =>
              /\ s \notin DOMAIN session_cutoff_data'
              /\ s \notin DOMAIN session_contact_data' =>
                    LET d == session_contact_data[s] IN
                    /\ Handled(s)'
                    /\ Asked(s) = "message"
                    /\ REQUIRED_CONTACT_FIELDS \subseteq Filled(d)
                    /\ CharLen(d["name"]) >= 2
                    /\ IsEmail(d["email"])
                    /\ d["phone"] # None
                    /\ d["programme"] \in PROGRAMMES
                    /\ d["query_type"] \in QUERY_TYPES
                    /\ last'.call.to = "save" \/ last'.resp.reply.text = "contact_error"
      ]_vars

\* a session that gave "hi" as its name was asked for its email address
\* and sent a greeting, then a cutoff question: it is still asked for the
\* email address, and it is in no cutoff flow
C36_Witness ==
    \E s \in cfg.sessions :
        /\ Handled(s)
        /\ last.message = M_cse_oc_cutoff
        /\ last.resp.reply = Reply("email_invalid", <<>>)
        /\ last.resp.intent = "contact_request"
        /\ s \in DOMAIN session_contact_data /\ Asked(s) = "email"
        /\ session_contact_data[s]["name"] = M_hi
        /\ s \notin DOMAIN session_cutoff_data
        /\ Len(session_history[s]) = 8

\* the message holds one of the phrases that give the rank up: as typed,
\* or anywhere in its text as the handler reads it
HoldsEscapePhrase(raw) ==
    \/ AnyInText(NO_RANK_PHRASES, sanitise_input(raw))
    \/ \E p \in NO_RANK_PHRASES :
          \E i \in 1..(Len(raw) - Len(p) + 1) : \A j \in 1..Len(p) : raw[i + j - 1] = p[j]

\* C37: while the rank is awaited, a reply that holds a phrase giving the
\* rank up and a number that is a valid rank ends the flow in that turn
\* with the cutoffs of the collected branches, category and gender: the
\* session is in no flow, and the number is not taken as the rank
C37_EscapeBeforeNumber ==
    [][\A s \in cfg.sessions :
          (Handled(s)' /\ s \in DOMAIN session_cutoff_data /\ Asked(s) = "rank"
                /\ HoldsEscapePhrase(last'.message)
                /\ extract_rank(sanitise_input(last'.message)) # NoRank) =>
              /\ ~Active(s)'
              /\ last'.resp.status \in {200, 500}
              /\ last'.resp.status = 200 =>
                    /\ last'.resp.intent = "cutoff"
                    /\ last'.resp.reply =
                          Reply("no_rank_cutoffs",
                                <<Get(Collected(s), "branch", <<>>),
                                  Get(Collected(s), "category", None),
                                  Get(Collected(s), "gender", None)>>)
      ]_vars

\* "don't have 5000" as the answer to the rank question was answered with
\* the eligibility of rank 5000 for CSE / OC / Boys
C37_Witness ==
    \E s \in cfg.sessions :
        /\ Handled(s)
        /\ last.message = M_dont_have_5000
        /\ last.resp.status = 200
        /\ last.resp.reply = LookupReply(<< <<"CSE">> >>, <<"OC">>, <<"Boys">>, 5000)
        /\ ~Active(s)

\* the entries a turn adds
TURN == <<[role |-> "user"], [role |-> "assistant"]>>

\* h, then the two entries of a turn, cut to its newest 2 * MAX_HISTORY
\* entries if cut it is
TurnAdded(h, cut) ==
    LET a == h \o TURN IN
    IF cut /\ Len(a) > MAX_HISTORY * 2
    THEN SubSeq(a, Len(a) - MAX_HISTORY * 2 + 1, Len(a)) ELSE a

\* C38: a request that is answered (status 200) adds two entries to the
\* history of its session, the user message and then the reply, the oldest
\* entries being dropped where the history is trimmed; a request that is
\* refused (429, 400) or ends with an error adds none, and no request
\* touches the history of another session. So every history has an even
\* number of entries, which are by turns the user's and the assistant's,
\* the user's first
C38_TurnsInPairs ==
    [][\A s \in cfg.sessions :
          LET h == Get(session_history, s, <<>>)
              h2 == Get(session_history', s, <<>>)
          IN  /\ (Handled(s)' /\ last'.resp.status = 200) =>
                    h2 \in {TurnAdded(h, FALSE), TurnAdded(h, TRUE)}
              /\ ~(Handled(s)' /\ last'.resp.status = 200) => h2 = h
              /\ Len(h2) % 2 = 0
              /\ \A i \in 1..Len(h2) :
                    h2[i].role = (IF i % 2 = 1 THEN "user" ELSE "assistant")
      ]_vars

\* a generated answer has trimmed the history to twenty entries, the
\* thirteenth request answered for the session
C38_Witness ==
    \E s \in cfg.sessions, c \in cfg.clients :
        /\ Handled(s) /\ last.client = c
        /\ last.resp.reply.text = "generated"
        /\ Len(session_history[s]) = MAX_HISTORY * 2
        /\ session_history[s][1].role = "user"
        /\ Len(admitted[c]) = 13

\* C39: of the requests received for a session while its contact flow
\* awaits the answer to the message question, the one handled first
\* submits the contact request and removes the collection; one handled
\* after it finds the session in no contact flow, submits nothing, and is
\* answered like any new message. So the request is submitted once, and
\* every one of these requests gets a reply
C39_SubmittedOnce ==
    [][\A q \in Served :
          LET s == q.session IN
          (WaitingFor(q.seen) = "message" /\ sanitise_input(q.message) # <<>>) =>
              /\ last'.resp.status = 200
              /\ last'.resp.reply # NoReply
              /\ last'.call.to = "save" <=>
                    (s \in DOMAIN session_contact_data /\ Asked(s) = "message")
              /\ last'.call.to = "save" => s \notin DOMAIN session_contact_data'
      ]_vars

\* an email address and a phone number were both received while the message
\* was awaited; the first has been handled and the request submitted with it,
\* the session is in no contact flow, and the other is still to be handled
C39_Witness ==
    \E q \in inflight :
        /\ WaitingFor(q.seen) = "message"
        /\ q.message = M_phone
        /\ last.session = q.session /\ last.message = M_email
        /\ last.call.to = "save"
        /\ last.resp.reply.text = "contact_submitted"
        /\ q.session \notin DOMAIN session_contact_data

\* C40: a request of a client whose bucket is not empty is let through if
\* it comes 60 seconds or more after the oldest timestamp of the bucket; a
\* refused request comes less than 60 seconds after it and leaves the bucket
\* as it was, so refusals do not move the time of the next admission; and
\* while time moves on and the client keeps sending, a client refused at
\* least 60 seconds before the end of the observed time is let through later
C40_AdmittedAfterWindow ==
    /\ [][\A c \in cfg.clients :
             LET b == Get(rate_buckets, c, <<>>) IN
             (last'.client = c /\ b # <<>>) =>
                 /\ clock' - b[1] >= WINDOW => last'.resp.status # 429
                 /\ last'.resp.status = 429 =>
                       /\ clock' - b[1] < WINDOW
                       /\ rate_buckets'[c] = b
          ]_vars
    /\ \A c \in CfgRateLive.clients :
          (/\ last.client = c /\ last.resp.status = 429
           /\ rate_buckets[c][1] + WINDOW <= Horizon(cfg))
             ~> (last.client = c /\ last.resp.status # 429)

\* a client let through at times 60 and 61, at the ceiling from then on, is
\* let through at time 120, 60 seconds after the older of the two, while
\* the bucket still holds the younger and the other client is at the ceiling
C40_Witness ==
    \E c \in cfg.clients :
        /\ last.client = c /\ last.resp.status # 429 /\ clock = 120
        /\ rate_buckets[c] = <<61, 120>>
        /\ \E i \in 1..Len(admitted[c]) : admitted[c][i] = 60
        /\ \E d \in cfg.clients \ {c} :
              d \in DOMAIN rate_buckets /\ Len(rate_buckets[d]) = cfg.rate_limit

====
